---- MODULE Spec2Model ----
(***************************************************************************)
(* The authenticated-fetch orchestrator of eth-private-data-repo-client:   *)
(* the inline authFetch and the createAuthFetch closure of the             *)
(* siwe-auth-fetch package, and fetchWithOAuth of the application.         *)
(*                                                                         *)
(* A client is one of the three implementations.  Its invocations run in   *)
(* slots; an invocation is an async function, so a step of the model is    *)
(* one synchronous stretch of the code between two awaits.                 *)
(*                                                                         *)
(* Text the code only passes along is an atomic string.  Text the code     *)
(* takes apart (a scope, a token URI, a chain id, a signing scheme) is a   *)
(* sequence of chunks, each chunk standing for a fixed run of characters.  *)
(***************************************************************************)
EXTENDS Integers, Sequences, FiniteSets, TLC

\* Invocations started over the life of one client.
MaxCalls == 3
\* Distinct access tokens the authorization server hands out.
MaxTokens == 2

\* Invocations in flight at once.
Slots == {"s1", "s2"}

Variants == {"authFetch", "createAuthFetch", "fetchWithOAuth"}

-----------------------------------------------------------------------------
(* JavaScript values *)

\* `undefined`, for an atomic string and for a chunked one.
Undefined == "<undefined>"
undefinedS == <<Undefined>>

\* if (v), v || d, !v on an optional atomic string.
Truthy(v) == v # Undefined /\ v # ""
\* The same on an optional chunked string.
TruthyS(s) == s # undefinedS /\ s # <<>>
\* `${v}` in a template literal.
TemplateStr(v) == IF v = Undefined THEN "undefined" ELSE v

\* parseInt's "not a number"; every parsed chain id is >= 0 (no sign chunk).
NaN == -1
\* if (n), n || d on a number.
TruthyN(n) == n # 0 /\ n # NaN

TokenName == <<"T1", "T2", "T3", "T4">>
Tokens == {TokenName[i] : i \in 1..MaxTokens}

-----------------------------------------------------------------------------
(* Headers objects *)

HeaderNames == {"Authorization", "X-Trace"}
\* A Headers object: the list of values under each name (<<>>: not present).
EmptyHeaders == [n \in HeaderNames |-> <<>>]
\* Headers.prototype.set: the value replaces whatever the name held.
HeadersSet(h, name, value) == [h EXCEPT ![name] = <<value>>]
\* Headers.prototype.append: the value joins what the name held.
HeadersAppend(h, name, value) == [h EXCEPT ![name] = Append(@, value)]

Bearer(token) == "Bearer " \o TemplateStr(token)

\* The caller's RequestInit, auth options taken out (fetchInit / init).
CallerInits ==
  { [method |-> Undefined, headers |-> EmptyHeaders, body |-> Undefined],
    [method |-> "POST",
     headers |-> [EmptyHeaders EXCEPT !["Authorization"] = <<"Basic dXNlcg==">>,
                                      !["X-Trace"] = <<"t1">>],
     body |-> "payload"] }
\* fetchWithOAuth takes no RequestInit: it sends only the headers it builds.
NoInit == [method |-> Undefined, headers |-> EmptyHeaders, body |-> Undefined]

\* The protected resource.
ResourceUrl == <<"https://", "api.example.com", "/user/0xA/profile">>
\* new URL(uri).host
Host(uri) == uri[2]
Address == "0xA"

NoRequest == [input |-> <<>>, init |-> NoInit]

-----------------------------------------------------------------------------
(* Responses *)

\* A body: json says whether response.json() resolves, the rest are the
\* parsed object's fields.
NotJson == [json |-> FALSE, nonce |-> Undefined, error |-> Undefined,
            access_token |-> Undefined, scope |-> undefinedS]
EmptyObject == [NotJson EXCEPT !.json = TRUE]

\* The text of a header is read chunk by chunk: a double quote, an equals sign,
\* and chunks that hold neither.
Quote == "\""
Equals == "="

\* A WWW-Authenticate header: whether the response has one, and its text.
NoHeader == [present |-> FALSE, value |-> <<>>]
\* The text that lists the pairs the way the server writes them:
\* Bearer, key="value", key="value"
RECURSIVE Render(_)
Render(pairs) ==
  IF pairs = <<>> THEN <<>>
  ELSE <<",", " ", pairs[1][1], Equals, Quote>> \o pairs[1][2] \o <<Quote>>
       \o Render(Tail(pairs))
HeaderText(text) == [present |-> TRUE, value |-> text]
Header(pairs) == HeaderText(<<"Bearer">> \o Render(pairs))

NoResponse == [status |-> 0, www |-> NoHeader, body |-> NotJson]
\* response.ok
Ok(r) == r.status \in 200..299

Realm == <<"kv-profile">>
ScopeAB == <<"a", " ", "b">>
TokenUri == <<"https://as.example.com", "/api/auth", "/token">>

\* WWW-Authenticate headers, each as the key="value" pairs it lists, in order.
HMinimal == << <<"realm", Realm>>, <<"scope", ScopeAB>>, <<"token_uri", TokenUri>> >>
\* A scope with two spaces in a row, and token URIs with "/token" twice (the
\* first time inside a longer path segment) and not at all.
ScopeGap == <<"a", " ", " ", "b">>
TokenUriTwice == <<"https://as.example.com", "/token", "s", "/token">>
TokenUriNone == <<"https://as.example.com", "/oauth", "/issue">>
HFull ==
  << <<"realm", Realm>>, <<"scope", ScopeGap>>, <<"token_uri", TokenUriTwice>>,
     <<"chain_id", <<"5">> >>, <<"signing_scheme", <<"eip4361">> >> >>
HOtherPath ==
  << <<"realm", Realm>>, <<"scope", ScopeAB>>, <<"token_uri", TokenUriNone>>,
     <<"chain_id", <<"0">> >> >>
HUnknownScheme == HMinimal \o << <<"signing_scheme", <<"unknownscheme">> >> >>
HNoTokenUri == << <<"realm", Realm>>, <<"scope", ScopeAB>> >>

\* What the protected resource may answer, to the first attempt and to the retry.
ResourceResponses ==
  { [status |-> 200, www |-> NoHeader, body |-> EmptyObject],
    [status |-> 200, www |-> NoHeader, body |-> NotJson],
    [status |-> 403, www |-> NoHeader, body |-> EmptyObject],
    [status |-> 500, www |-> Header(HMinimal), body |-> NotJson],
    [status |-> 401, www |-> NoHeader, body |-> EmptyObject],
    [status |-> 401, www |-> Header(HNoTokenUri), body |-> EmptyObject],
    [status |-> 401, www |-> Header(HUnknownScheme), body |-> EmptyObject],
    [status |-> 401, www |-> Header(HMinimal), body |-> EmptyObject],
    [status |-> 401, www |-> Header(HFull), body |-> EmptyObject],
    [status |-> 401, www |-> Header(HOtherPath), body |-> EmptyObject] }

\* What the nonce endpoint may answer.
NonceResponses ==
  { [status |-> 200, www |-> NoHeader, body |-> [EmptyObject EXCEPT !.nonce = "N1"]],
    [status |-> 200, www |-> NoHeader, body |-> EmptyObject],
    [status |-> 200, www |-> NoHeader, body |-> NotJson],
    [status |-> 500, www |-> NoHeader, body |-> NotJson] }

\* What the token endpoint may answer.
TokenResponses ==
  { [status |-> 200, www |-> NoHeader,
     body |-> [EmptyObject EXCEPT !.access_token = t, !.scope = ScopeAB]] : t \in Tokens }
  \cup
  { [status |-> 200, www |-> NoHeader, body |-> EmptyObject],
    [status |-> 200, www |-> NoHeader, body |-> NotJson],
    [status |-> 400, www |-> NoHeader, body |-> [EmptyObject EXCEPT !.error = "invalid_signature"]],
    [status |-> 400, www |-> NoHeader, body |-> EmptyObject],
    [status |-> 400, www |-> NoHeader, body |-> NotJson] }

Signature == "0xSIG"

-----------------------------------------------------------------------------
(* parseWWWAuthenticateChallenge *)

Digit == <<"0", "1", "2", "3", "4", "5", "6", "7", "8", "9">>
IsDigit(ch) == \E i \in 1..10 : Digit[i] = ch
DigitValue(ch) == (CHOOSE i \in 1..10 : Digit[i] = ch) - 1

RECURSIVE ParseDigits(_, _, _)
ParseDigits(s, i, acc) ==
  IF i > Len(s) \/ ~IsDigit(s[i]) THEN acc
  ELSE ParseDigits(s, i + 1, acc * 10 + DigitValue(s[i]))

RECURSIVE SkipSpaces(_, _)
SkipSpaces(s, i) == IF i <= Len(s) /\ s[i] = " " THEN SkipSpaces(s, i + 1) ELSE i

\* parseInt gone wrong: the first digit is the number.
parseIntOneDigit(s) == IF s = <<>> \/ ~IsDigit(s[1]) THEN NaN ELSE DigitValue(s[1])

\* parseInt(s, 10): leading spaces skipped, then the longest run of digits.
parseInt(s) ==
  LET i == SkipSpaces(s, 1)
  IN IF i > Len(s) \/ ~IsDigit(s[i]) THEN NaN ELSE ParseDigits(s, i, 0)

\* Chunks made of word characters alone (\w: letters, digits, underscore).
Words ==
  {"Bearer", "realm", "scope", "token_uri", "chain_id", "signing_scheme",
   "eip4361", "unknownscheme", "a", "b", "r", "s", "x"}
  \cup {Digit[i] : i \in 1..10}
IsWord(ch) == ch \in Words

\* (\w+) from chunk i on: the last chunk of the run of word chunks (i - 1: none).
RECURSIVE WordRunEnd(_, _)
WordRunEnd(h, i) == IF i <= Len(h) /\ IsWord(h[i]) THEN WordRunEnd(h, i + 1) ELSE i - 1
\* ([^"]+) from chunk i on: the last chunk before the next quote (i - 1: none).
RECURSIVE ValueEnd(_, _)
ValueEnd(h, i) == IF i <= Len(h) /\ h[i] # Quote THEN ValueEnd(h, i + 1) ELSE i - 1

NoMatch == [found |-> FALSE, key |-> <<>>, value |-> <<>>, next |-> 0]
\* /(\w+)="([^"]+)"/ tried at chunk i: a word, then =", then a value that is not
\* empty, then the closing quote.  next is where the search goes on.
MatchAt(h, i) ==
  LET k == WordRunEnd(h, i)
      v == ValueEnd(h, k + 3)
  IN IF /\ k >= i /\ k + 2 <= Len(h) /\ h[k + 1] = Equals /\ h[k + 2] = Quote
        /\ v >= k + 3 /\ v + 1 <= Len(h)
     THEN [found |-> TRUE, key |-> SubSeq(h, i, k), value |-> SubSeq(h, k + 3, v),
           next |-> v + 2]
     ELSE NoMatch

\* header.matchAll(regex) from chunk i on: the matches from left to right, each
\* search starting where the match before it ended.
RECURSIVE matchAll(_, _)
matchAll(h, i) ==
  IF i > Len(h) THEN <<>>
  ELSE LET m == MatchAt(h, i)
       IN IF m.found THEN << <<m.key, m.value>> >> \o matchAll(h, m.next)
          ELSE matchAll(h, i + 1)

\* Param gone wrong: the first pair with the key is the one kept.
RECURSIVE ParamFirst(_, _)
ParamFirst(pairs, key) ==
  IF pairs = <<>> THEN undefinedS
  ELSE IF pairs[1][1] = <<key>> THEN pairs[1][2]
  ELSE ParamFirst(Tail(pairs), key)

\* params[key] after the loop: the value of the last pair with that key.
RECURSIVE Param(_, _)
Param(pairs, key) ==
  IF pairs = <<>> THEN undefinedS
  ELSE LET last == pairs[Len(pairs)]
       IN IF last[1] = <<key>> THEN last[2]
          ELSE Param(SubSeq(pairs, 1, Len(pairs) - 1), key)

NoChallenge == [valid |-> FALSE, realm |-> undefinedS, scope |-> undefinedS,
                tokenUri |-> undefinedS, chainId |-> 0, signingScheme |-> undefinedS]

\* parseWWWAuthenticateChallenge gone wrong: realm alone is asked for.
parseWWWAuthenticateChallengeRealmOnly(header) ==
  LET pairs == matchAll(header, 1) IN
  IF ~TruthyS(Param(pairs, "realm"))
  THEN NoChallenge
  ELSE [valid |-> TRUE,
        realm |-> Param(pairs, "realm"),
        scope |-> Param(pairs, "scope"),
        tokenUri |-> Param(pairs, "token_uri"),
        chainId |-> IF TruthyS(Param(pairs, "chain_id"))
                    THEN parseInt(Param(pairs, "chain_id")) ELSE 1,
        signingScheme |-> IF TruthyS(Param(pairs, "signing_scheme"))
                          THEN Param(pairs, "signing_scheme") ELSE <<"eip4361">>]

\* null (valid = FALSE) or the challenge.
parseWWWAuthenticateChallenge(header) ==
  LET pairs == matchAll(header, 1) IN
  IF ~TruthyS(Param(pairs, "realm")) \/ ~TruthyS(Param(pairs, "scope"))
     \/ ~TruthyS(Param(pairs, "token_uri"))
  THEN NoChallenge
  ELSE [valid |-> TRUE,
        realm |-> Param(pairs, "realm"),
        scope |-> Param(pairs, "scope"),
        tokenUri |-> Param(pairs, "token_uri"),
        chainId |-> IF TruthyS(Param(pairs, "chain_id"))
                    THEN parseInt(Param(pairs, "chain_id")) ELSE 1,
        signingScheme |-> IF TruthyS(Param(pairs, "signing_scheme"))
                          THEN Param(pairs, "signing_scheme") ELSE <<"eip4361">>]

-----------------------------------------------------------------------------
(* fetchNonce, buildSiweMessage, exchangeToken: what each sends *)

\* ReplaceFirst gone wrong: every occurrence is replaced.
RECURSIVE ReplaceAll(_, _, _)
ReplaceAll(s, pattern, replacement) ==
  IF s = <<>> THEN <<>>
  ELSE IF Head(s) = pattern THEN replacement \o ReplaceAll(Tail(s), pattern, replacement)
  ELSE <<Head(s)>> \o ReplaceAll(Tail(s), pattern, replacement)

\* String.prototype.replace(pattern, replacement) with a string pattern: the
\* first occurrence only; the text unchanged when there is none.
RECURSIVE ReplaceFirst(_, _, _)
ReplaceFirst(s, pattern, replacement) ==
  IF s = <<>> THEN <<>>
  ELSE IF Head(s) = pattern THEN replacement \o Tail(s)
  ELSE <<Head(s)>> \o ReplaceFirst(Tail(s), pattern, replacement)

\* The URL fetchNonce requests (siwe-auth-fetch).
nonceUrl(tokenUri) == ReplaceFirst(tokenUri, "/token", <<"/nonce">>)
\* The URL fetchNonce requests (fetchWithOAuth's module).
nonceUrlApp(tokenUri) == ReplaceFirst(tokenUri, "/token", <<>>) \o <<"/nonce">>

\* split gone wrong: runs of spaces count as one, so no piece is empty.
RECURSIVE SplitRuns(_, _)
SplitRuns(s, piece) ==
  IF s = <<>> THEN (IF piece = <<>> THEN <<>> ELSE <<piece>>)
  ELSE IF Head(s) = " "
  THEN (IF piece = <<>> THEN <<>> ELSE <<piece>>) \o SplitRuns(Tail(s), <<>>)
  ELSE SplitRuns(Tail(s), Append(piece, Head(s)))
splitRuns(s) == SplitRuns(s, <<>>)

\* String.prototype.split(" "): the pieces between single spaces, empty ones kept.
RECURSIVE Split(_, _)
Split(s, piece) ==
  IF s = <<>> THEN <<piece>>
  ELSE IF Head(s) = " " THEN <<piece>> \o Split(Tail(s), <<>>)
  ELSE Split(Tail(s), Append(piece, Head(s)))
split(s) == Split(s, <<>>)

NoMessage == [address |-> Undefined, chainId |-> 0, domain |-> Undefined,
              nonce |-> Undefined, uri |-> <<>>, version |-> Undefined,
              statement |-> Undefined, resources |-> <<>>]

\* The fields buildSiweMessage hands to createSiweMessage (siwe-auth-fetch).
buildSiweMessage(address, nonce, scopes, uri, chainId) ==
  [address |-> address,
   chainId |-> chainId,
   domain |-> Host(uri),
   nonce |-> nonce,
   uri |-> uri,
   version |-> "1",
   statement |-> "Authorize access to your private data.",
   resources |-> [i \in 1..Len(scopes) |-> <<"urn:oauth:scope:">> \o scopes[i]]]

\* const CHAIN_ID = 1 of fetchWithOAuth's module.
CHAIN_ID == 1
\* The same for fetchWithOAuth: the chain id is the module's constant.
buildSiweMessageApp(address, nonce, scopes, uri) ==
  buildSiweMessage(address, nonce, scopes, uri, CHAIN_ID)

NoExchange == [input |-> <<>>, method |-> Undefined, contentType |-> Undefined,
               grant_type |-> Undefined, message |-> NoMessage,
               signature |-> Undefined, scope |-> undefinedS]

\* exchangeRequest gone wrong: the scope is sent with its spaces tidied up.
RECURSIVE Tidy(_)
Tidy(pieces) ==
  IF pieces = <<>> THEN <<>>
  ELSE IF Len(pieces) = 1 THEN pieces[1]
  ELSE pieces[1] \o <<" ">> \o Tidy(Tail(pieces))
exchangeRequestTidied(tokenUri, message, signature, scope) ==
  [input |-> tokenUri, method |-> "POST", contentType |-> "application/json",
   grant_type |-> "eth_signature", message |-> message,
   signature |-> signature, scope |-> Tidy(splitRuns(scope))]

\* The request exchangeToken sends.
exchangeRequest(tokenUri, message, signature, scope) ==
  [input |-> tokenUri, method |-> "POST", contentType |-> "application/json",
   grant_type |-> "eth_signature", message |-> message,
   signature |-> signature, scope |-> scope]

-----------------------------------------------------------------------------
(* How an invocation ends *)

NoError == [message |-> Undefined, status |-> 0, text |-> <<>>]
Error(message, status, text) == [message |-> message, status |-> status, text |-> text]

NoOutcome == [kind |-> "none", response |-> NoResponse, error |-> NoError,
              token |-> Undefined]
\* return response
Returned(r) == [NoOutcome EXCEPT !.kind = "response", !.response = r]
\* throw new Error(...), or a rejection passed on
Thrown(e) == [NoOutcome EXCEPT !.kind = "throw", !.error = e]
\* return { data, token } of fetchWithOAuth; the data is the response's parsed body
ReturnedData(r, token) ==
  [NoOutcome EXCEPT !.kind = "data", !.response = r, !.token = token]

\* fetch rejects: the request could not complete.
FetchFailed == Error("TypeError: fetch failed", 0, <<>>)
\* response.json() rejects: the body is not JSON.
JsonFailed == Error("SyntaxError: not valid JSON", 0, <<>>)
\* signMessage rejects: the user declined.
UserRejected == Error("User rejected the request", 0, <<>>)

\* The error exchangeToken throws on a non-ok response (siwe-auth-fetch):
\* response.json().catch(() => ({})), then error.error || the status message.
exchangeError(r) ==
  LET error == IF r.body.json THEN r.body ELSE EmptyObject
  IN IF Truthy(error.error) THEN Error(error.error, 0, <<>>)
     ELSE Error("Token exchange failed: ", r.status, <<>>)

\* The same in fetchWithOAuth's module: response.json() is not caught.
exchangeErrorApp(r) ==
  IF ~r.body.json THEN JsonFailed
  ELSE IF Truthy(r.body.error) THEN Error(r.body.error, 0, <<>>)
  ELSE Error("Token exchange failed: ", r.status, <<>>)

-----------------------------------------------------------------------------
(* State *)

VARIABLES
  variant,       \* the implementation this client runs
  onTokenGiven,  \* whether the caller supplied onToken
  chainIdOption, \* the chainId option (1 when the caller gives none)
  currentToken,  \* createAuthFetch's closure variable
  issued,        \* the access_token of the latest token response (history)
  accessToken,   \* useAuthorMessages: the accessToken state
  cleared,       \* clearAuth has run and authorize has not been called since (history)
  started,       \* invocations started so far
  call           \* per slot: the invocation running in it

vars == <<variant, onTokenGiven, chainIdOption, currentToken, issued, accessToken,
          cleared, started, call>>

\* An invocation not yet made.  pc is the await the invocation is suspended at:
\*   FirstAttempted     await fetch(input, ...)            (first attempt)
\*   ChallengeDetected  await fetchNonce(challenge.tokenUri)
\*   MessageBuilt       await signMessage(...)
\*   Signed             await exchangeToken(...)
\*   Retried            await fetch(input, ...)            (retry)
\* log lists what the invocation has called, in call order; pending holds the
\* calls that have not come back; rejected names the call that rejected.
\* response, nonceResponse, exchangeResponse and retryResponse are the responses
\* as they arrived.
Idle ==
  [pc |-> "Initial", token |-> Undefined, init |-> NoInit,
   firstReq |-> NoRequest, response |-> NoResponse,
   nonceReq |-> <<>>, nonceResponse |-> NoResponse, nonce |-> Undefined,
   siweMessage |-> NoMessage, signed |-> NoMessage, signature |-> Undefined,
   exchangeReq |-> NoExchange, exchangeResponse |-> NoResponse,
   tokenResponse |-> NotJson,
   retryReq |-> NoRequest, retryResponse |-> NoResponse,
   log |-> <<>>, pending |-> {}, rejected |-> "", onTokenCalls |-> <<>>,
   outcome |-> NoOutcome]

\* Tokens a caller may pass in (token / existingToken).
CallerTokens == {Undefined, "", TokenName[1]}
ChainIdOptions == {1, 10}

Init ==
  /\ variant \in Variants
  /\ onTokenGiven \in (IF variant = "fetchWithOAuth" THEN {FALSE} ELSE BOOLEAN)
  /\ chainIdOption \in (IF variant = "fetchWithOAuth" THEN {1} ELSE ChainIdOptions)
  /\ currentToken \in (IF variant = "createAuthFetch" THEN CallerTokens ELSE {Undefined})
  /\ issued = Undefined
  /\ accessToken = Undefined
  /\ cleared = FALSE
  /\ started = 0
  /\ call = [s \in Slots |-> Idle]

\* The challenge of the first response.
Challenge(c) == parseWWWAuthenticateChallenge(c.response.www.value)

Finish(c, outcome) ==
  [c EXCEPT !.pc = IF outcome.kind = "throw" THEN "Failed" ELSE "Done",
            !.pending = {}, !.outcome = outcome]

\* Issue gone wrong: the call goes out while the one before is still awaited.
IssueUnawaited(c, pc, what) ==
  [c EXCEPT !.pc = pc, !.log = Append(@, what), !.pending = @ \cup {what}]

\* One more call goes out and the invocation waits for it at pc.
Issue(c, pc, what) ==
  [c EXCEPT !.pc = pc, !.log = Append(@, what), !.pending = {what}]

-----------------------------------------------------------------------------
(* The first attempt *)

\* firstHeaders gone wrong: the token is attached without asking whether there is one.
firstHeadersUnguarded(initHeaders, token) ==
  HeadersSet(initHeaders, "Authorization", Bearer(token))

\* The headers of the first attempt: the caller's, and the token when there is one.
firstHeaders(initHeaders, token) ==
  IF Truthy(token) THEN HeadersSet(initHeaders, "Authorization", Bearer(token))
  ELSE initHeaders

\* From the call to the first await fetch.
start(c, init, token) ==
  Issue([c EXCEPT !.token = token, !.init = init,
                  !.firstReq = [input |-> ResourceUrl,
                                init |-> [init EXCEPT !.headers =
                                            firstHeaders(init.headers, token)]]],
        "FirstAttempted", "request")

Start(s) ==
  /\ call[s].pc = "Initial"
  /\ started < MaxCalls
  \* One invocation at a time.
  /\ \A t \in Slots : call[t].pc = "Initial"
  /\ \E init \in (IF variant = "fetchWithOAuth" THEN {NoInit} ELSE CallerInits),
        token \in (IF variant = "createAuthFetch" THEN {currentToken} ELSE CallerTokens) :
       call' = [call EXCEPT ![s] = start(@, init, token)]
  /\ started' = started + 1
  /\ UNCHANGED <<accessToken, cleared, variant, onTokenGiven, chainIdOption, currentToken, issued>>

\* passThrough gone wrong: a response that is not ok is thrown.
passThroughThrowing(c, r) ==
  IF ~Ok(r) THEN Finish(c, Thrown(Error("Request failed: ", r.status, <<>>)))
  ELSE Finish(c, Returned(r))

\* A response other than 401 (authFetch, createAuthFetch): returned as it is.
passThrough(c, r) == Finish(c, Returned(r))

\* A response other than 401 (fetchWithOAuth).
passThroughApp(c, r) ==
  IF ~Ok(r) THEN Finish(c, Thrown(Error("Request failed: ", r.status, <<>>)))
  ELSE IF ~r.body.json THEN Finish(c, Thrown(JsonFailed))
  ELSE Finish(c, ReturnedData(r, IF Truthy(c.token) THEN c.token ELSE ""))

\* noChallenge gone wrong: the 401 without a usable challenge is thrown.
noChallengeThrowing(c, r) ==
  Finish(c, Thrown(Error("Failed to parse WWW-Authenticate challenge", 0, <<>>)))

\* A 401 that asks for nothing this code can answer (authFetch, createAuthFetch).
noChallenge(c, r) == Finish(c, Returned(r))

\* The same in fetchWithOAuth.
noChallengeApp(c, r) ==
  Finish(c, Thrown(Error(IF ~r.www.present
                         THEN "Missing WWW-Authenticate header in 401 response"
                         ELSE "Failed to parse WWW-Authenticate challenge", 0, <<>>)))

\* fetchNonce up to its await fetch(nonceUrl).
requestNonce(c, url) == Issue([c EXCEPT !.nonceReq = url], "ChallengeDetected", "nonce")

\* unsupportedScheme gone wrong: the flow goes on under the unknown scheme.
unsupportedSchemeIgnored(c, challenge) == requestNonce(c, nonceUrl(challenge.tokenUri))

unsupportedScheme(c, challenge) ==
  Finish(c, Thrown(Error("Unsupported signing scheme: ", 0, challenge.signingScheme)))

\* afterFirst gone wrong: every response that is not ok is taken for a challenge.
afterFirstAnyError(v, c0, r) ==
  LET c == [c0 EXCEPT !.response = r]
      challenge == parseWWWAuthenticateChallenge(r.www.value)
  IN IF Ok(r) THEN passThrough(c, r)
     ELSE IF ~r.www.present \/ ~challenge.valid THEN noChallenge(c, r)
     ELSE IF challenge.signingScheme # <<"eip4361">> THEN unsupportedScheme(c, challenge)
     ELSE requestNonce(c, nonceUrl(challenge.tokenUri))

\* From the first response to the return, the throw or the next await.
afterFirst(v, c0, r) ==
  LET c == [c0 EXCEPT !.response = r]
      challenge == parseWWWAuthenticateChallenge(r.www.value)
  IN IF r.status # 401
     THEN (IF v = "fetchWithOAuth" THEN passThroughApp(c, r) ELSE passThrough(c, r))
     ELSE IF ~r.www.present \/ ~challenge.valid
     THEN (IF v = "fetchWithOAuth" THEN noChallengeApp(c, r) ELSE noChallenge(c, r))
     ELSE IF challenge.signingScheme # <<"eip4361">>
     THEN unsupportedScheme(c, challenge)
     ELSE requestNonce(c, IF v = "fetchWithOAuth" THEN nonceUrlApp(challenge.tokenUri)
                          ELSE nonceUrl(challenge.tokenUri))

FirstResponse(s) ==
  /\ call[s].pc = "FirstAttempted"
  /\ \E r \in ResourceResponses : call' = [call EXCEPT ![s] = afterFirst(variant, @, r)]
  /\ UNCHANGED <<accessToken, cleared, variant, onTokenGiven, chainIdOption, currentToken, issued, started>>

-----------------------------------------------------------------------------
(* The challenge flow *)

\* From the nonce endpoint's response to the throw or to await signMessage.
afterNonce(v, c0, r, chainId) ==
  LET c == [c0 EXCEPT !.nonceResponse = r] IN
  IF ~Ok(r) THEN Finish(c, Thrown(Error("Failed to fetch nonce: ", r.status, <<>>)))
  ELSE IF ~r.body.json THEN Finish(c, Thrown(JsonFailed))
  ELSE LET challenge == Challenge(c)
           nonce == r.body.nonce
           scopes == split(challenge.scope)
           siweMessage ==
             IF v = "fetchWithOAuth"
             THEN buildSiweMessageApp(Address, nonce, scopes, ResourceUrl)
             ELSE buildSiweMessage(Address, nonce, scopes, ResourceUrl,
                                   IF TruthyN(challenge.chainId) THEN challenge.chainId
                                   ELSE chainId)
       IN Issue([c EXCEPT !.nonce = nonce, !.siweMessage = siweMessage,
                          !.signed = siweMessage],
                "MessageBuilt", "sign")

NonceResponse(s) ==
  /\ call[s].pc = "ChallengeDetected"
  /\ \E r \in NonceResponses :
       call' = [call EXCEPT ![s] = afterNonce(variant, @, r, chainIdOption)]
  /\ UNCHANGED <<accessToken, cleared, variant, onTokenGiven, chainIdOption, currentToken, issued, started>>

\* afterSign gone wrong: the signer is asked a second time before the exchange.
afterSignAskingAgain(c, signature) ==
  IF Cardinality({i \in 1..Len(c.log) : c.log[i] = "sign"}) < 2
  THEN Issue(c, "MessageBuilt", "sign")
  ELSE Issue([c EXCEPT !.signature = signature,
                       !.exchangeReq = exchangeRequest(Challenge(c).tokenUri, c.siweMessage,
                                                       signature, Challenge(c).scope)],
             "Signed", "exchange")

\* From the signature to exchangeToken's await fetch(tokenUri, ...).
afterSign(c, signature) ==
  LET challenge == Challenge(c)
  IN Issue([c EXCEPT !.signature = signature,
                     !.exchangeReq = exchangeRequest(challenge.tokenUri, c.siweMessage,
                                                     signature, challenge.scope)],
           "Signed", "exchange")

SignerReturns(s) ==
  /\ call[s].pc = "MessageBuilt"
  /\ call' = [call EXCEPT ![s] = afterSign(@, Signature)]
  /\ UNCHANGED <<accessToken, cleared, variant, onTokenGiven, chainIdOption, currentToken, issued, started>>

\* exchangeToken resolves: the response is ok and its body is JSON.
ExchangeResolves(r) == Ok(r) /\ r.body.json

\* storeToken gone wrong: the new token is not kept for the calls to come.
storeTokenForgotten(v, current, tokenResponse) == current

\* currentToken = tokenResponse.access_token, in createAuthFetch alone.
storeToken(v, current, tokenResponse) ==
  IF v = "createAuthFetch" THEN tokenResponse.access_token ELSE current

\* onToken?.(tokenResponse.access_token, tokenResponse.scope)
notify(c, given, tokenResponse) ==
  IF given
  THEN [c EXCEPT !.onTokenCalls = Append(@, <<tokenResponse.access_token, tokenResponse.scope>>),
                 !.log = Append(@, "onToken")]
  ELSE c

\* retryHeaders gone wrong: the new token joins the Authorization the caller sent.
retryHeadersMerged(initHeaders, token) ==
  HeadersAppend(initHeaders, "Authorization", Bearer(token))

\* The headers of the retry: the caller's, with the new token as Authorization.
retryHeaders(initHeaders, token) == HeadersSet(initHeaders, "Authorization", Bearer(token))

\* The retry: the original request under the retry's headers.
retry(c, token) ==
  Issue([c EXCEPT !.retryReq = [input |-> ResourceUrl,
                                init |-> [c.init EXCEPT !.headers =
                                            retryHeaders(c.init.headers, token)]]],
        "Retried", "retry")

\* afterExchange gone wrong: the caller is told of the token after the retry has
\* gone out.
afterExchangeNotifyingLate(v, c0, r, given, current) ==
  LET c == [c0 EXCEPT !.exchangeResponse = r] IN
  IF ~Ok(r)
  THEN Finish(c, Thrown(IF v = "fetchWithOAuth" THEN exchangeErrorApp(r) ELSE exchangeError(r)))
  ELSE IF ~r.body.json THEN Finish(c, Thrown(JsonFailed))
  ELSE LET tokenResponse == r.body
           c1 == [c EXCEPT !.tokenResponse = tokenResponse]
       IN IF v = "fetchWithOAuth" THEN retry(c1, tokenResponse.access_token)
          ELSE notify(retry(c1, IF v = "createAuthFetch" THEN current
                                ELSE tokenResponse.access_token),
                      given, tokenResponse)

\* From the token endpoint's response to the throw or to the retry's await fetch.
\* current is createAuthFetch's currentToken after this stretch has stored into it.
afterExchange(v, c0, r, given, current) ==
  LET c == [c0 EXCEPT !.exchangeResponse = r] IN
  IF ~Ok(r)
  THEN Finish(c, Thrown(IF v = "fetchWithOAuth" THEN exchangeErrorApp(r) ELSE exchangeError(r)))
  ELSE IF ~r.body.json THEN Finish(c, Thrown(JsonFailed))
  ELSE LET tokenResponse == r.body
           c1 == [c EXCEPT !.tokenResponse = tokenResponse]
       IN IF v = "fetchWithOAuth" THEN retry(c1, tokenResponse.access_token)
          ELSE retry(notify(c1, given, tokenResponse),
                     IF v = "createAuthFetch" THEN current
                     ELSE tokenResponse.access_token)

ExchangeResponse(s) ==
  /\ call[s].pc = "Signed"
  /\ \E r \in TokenResponses :
       /\ currentToken' = IF ExchangeResolves(r)
                          THEN storeToken(variant, currentToken, r.body)
                          ELSE currentToken
       /\ issued' = IF ExchangeResolves(r) THEN r.body.access_token ELSE issued
       /\ call' = [call EXCEPT ![s] =
                     afterExchange(variant, @, r, onTokenGiven, currentToken')]
  /\ UNCHANGED <<accessToken, cleared, variant, onTokenGiven, chainIdOption, started>>

\* afterRetry gone wrong: a second 401 with a challenge starts the flow again.
afterRetryChallengedAgain(c, r) ==
  IF r.status = 401 /\ r.www.present /\ parseWWWAuthenticateChallenge(r.www.value).valid
  THEN requestNonce([c EXCEPT !.retryResponse = r],
                    nonceUrl(parseWWWAuthenticateChallenge(r.www.value).tokenUri))
  ELSE Finish([c EXCEPT !.retryResponse = r], Returned(r))

\* The retry's response (authFetch, createAuthFetch): returned as it is.
afterRetry(c, r) == Finish([c EXCEPT !.retryResponse = r], Returned(r))

\* The retry's response in fetchWithOAuth.
afterRetryApp(c, r) ==
  LET c1 == [c EXCEPT !.retryResponse = r]
  IN IF ~Ok(r) THEN Finish(c1, Thrown(Error("Request failed after auth: ", r.status, <<>>)))
     ELSE IF ~r.body.json THEN Finish(c1, Thrown(JsonFailed))
     ELSE Finish(c1, ReturnedData(r, c.tokenResponse.access_token))

RetryResponse(s) ==
  /\ call[s].pc = "Retried"
  /\ \E r \in ResourceResponses :
       call' = [call EXCEPT ![s] = IF variant = "fetchWithOAuth" THEN afterRetryApp(@, r)
                                   ELSE afterRetry(@, r)]
  /\ UNCHANGED <<accessToken, cleared, variant, onTokenGiven, chainIdOption, currentToken, issued, started>>

Awaiting == {"FirstAttempted", "ChallengeDetected", "MessageBuilt", "Signed", "Retried"}

\* rejected gone wrong: a failed step of the challenge flow falls back to
\* sending the original request again.
rejectedFallingBack(c) ==
  IF c.pc \in {"ChallengeDetected", "MessageBuilt", "Signed"}
  THEN Issue([c EXCEPT !.rejected = c.log[Len(c.log)], !.retryReq = c.firstReq],
             "Retried", "retry")
  ELSE Finish([c EXCEPT !.rejected = c.log[Len(c.log)]], Thrown(FetchFailed))

\* The awaited call rejects (the request could not complete, the user declined):
\* nothing catches it, so the invocation rejects with it.
rejected(c) ==
  Finish([c EXCEPT !.rejected = c.log[Len(c.log)]],
         Thrown(IF c.pc = "MessageBuilt" THEN UserRejected ELSE FetchFailed))

\* Rejects gone wrong: an invocation that fails takes the cached token with it.
RejectsClearing(s) ==
  /\ call[s].pc \in Awaiting
  /\ call' = [call EXCEPT ![s] = rejected(@)]
  /\ currentToken' = Undefined
  /\ UNCHANGED <<accessToken, cleared, variant, onTokenGiven, chainIdOption, issued, started>>

Rejects(s) ==
  /\ call[s].pc \in Awaiting
  /\ call' = [call EXCEPT ![s] = rejected(@)]
  /\ UNCHANGED <<accessToken, cleared, variant, onTokenGiven, chainIdOption, currentToken, issued, started>>

\* The caller has the outcome; the invocation's locals are gone.
Return(s) ==
  /\ call[s].pc \in {"Done", "Failed"}
  /\ call' = [call EXCEPT ![s] = Idle]
  /\ UNCHANGED <<accessToken, cleared, variant, onTokenGiven, chainIdOption, currentToken, issued, started>>

Next ==
  \E s \in Slots :
    \/ Start(s)
    \/ FirstResponse(s)
    \/ NonceResponse(s)
    \/ SignerReturns(s)
    \/ ExchangeResponse(s)
    \/ RetryResponse(s)
    \/ Rejects(s)
    \/ Return(s)

Spec == Init /\ [][Next]_vars

-----------------------------------------------------------------------------
(* Invocations of one createAuthFetch function running at once *)

\* The function createAuthFetch returns is async: a second invocation may be
\* made while the first is suspended at an await, and the two then take their
\* steps in any order, sharing currentToken.  The servers answer with fewer
\* kinds of response here than in Spec.
ConcResourceResponses ==
  { [status |-> 200, www |-> NoHeader, body |-> EmptyObject],
    [status |-> 401, www |-> Header(HMinimal), body |-> EmptyObject] }
ConcNonceResponses ==
  { [status |-> 200, www |-> NoHeader, body |-> [EmptyObject EXCEPT !.nonce = "N1"]],
    [status |-> 500, www |-> NoHeader, body |-> NotJson] }
ConcTokenResponses ==
  { [status |-> 200, www |-> NoHeader,
     body |-> [EmptyObject EXCEPT !.access_token = t, !.scope = ScopeAB]] : t \in Tokens }
  \cup
  { [status |-> 400, www |-> NoHeader, body |-> [EmptyObject EXCEPT !.error = "invalid_signature"]] }

InitConc ==
  /\ variant = "createAuthFetch"
  /\ onTokenGiven \in BOOLEAN
  /\ chainIdOption = 1
  /\ currentToken \in {Undefined, TokenName[1]}
  /\ issued = Undefined
  /\ accessToken = Undefined
  /\ cleared = FALSE
  /\ started = 0
  /\ call = [s \in Slots |-> Idle]

\* The bound function is called, whatever the other invocation is doing.
ConcStart(s) ==
  /\ call[s].pc = "Initial"
  /\ started < MaxCalls
  /\ \E init \in CallerInits : call' = [call EXCEPT ![s] = start(@, init, currentToken)]
  /\ started' = started + 1
  /\ UNCHANGED <<accessToken, cleared, variant, onTokenGiven, chainIdOption, currentToken, issued>>

\* ConcFirst gone wrong: a challenged invocation that finds a token stored since
\* its first attempt retries with that token instead of asking for its own.
ConcFirstReusing(s) ==
  /\ call[s].pc = "FirstAttempted"
  /\ \E r \in ConcResourceResponses :
       call' = [call EXCEPT ![s] =
                  IF r.status = 401 /\ Truthy(currentToken) /\ currentToken # @.token
                  THEN retry([@ EXCEPT !.response = r], currentToken)
                  ELSE afterFirst(variant, @, r)]
  /\ UNCHANGED <<accessToken, cleared, variant, onTokenGiven, chainIdOption, currentToken, issued, started>>

ConcFirst(s) ==
  /\ call[s].pc = "FirstAttempted"
  /\ \E r \in ConcResourceResponses : call' = [call EXCEPT ![s] = afterFirst(variant, @, r)]
  /\ UNCHANGED <<accessToken, cleared, variant, onTokenGiven, chainIdOption, currentToken, issued, started>>

ConcNonce(s) ==
  /\ call[s].pc = "ChallengeDetected"
  /\ \E r \in ConcNonceResponses :
       call' = [call EXCEPT ![s] = afterNonce(variant, @, r, chainIdOption)]
  /\ UNCHANGED <<accessToken, cleared, variant, onTokenGiven, chainIdOption, currentToken, issued, started>>

\* ConcExchange gone wrong: the retry reads the cache as it stood before this
\* invocation's token was stored in it.
ConcExchangeReadingEarlier(s) ==
  /\ call[s].pc = "Signed"
  /\ \E r \in ConcTokenResponses :
       /\ currentToken' = IF ExchangeResolves(r)
                          THEN storeToken(variant, currentToken, r.body)
                          ELSE currentToken
       /\ issued' = IF ExchangeResolves(r) THEN r.body.access_token ELSE issued
       /\ call' = [call EXCEPT ![s] =
                     afterExchange(variant, @, r, onTokenGiven, currentToken)]
  /\ UNCHANGED <<accessToken, cleared, variant, onTokenGiven, chainIdOption, started>>

ConcExchange(s) ==
  /\ call[s].pc = "Signed"
  /\ \E r \in ConcTokenResponses :
       /\ currentToken' = IF ExchangeResolves(r)
                          THEN storeToken(variant, currentToken, r.body)
                          ELSE currentToken
       /\ issued' = IF ExchangeResolves(r) THEN r.body.access_token ELSE issued
       /\ call' = [call EXCEPT ![s] =
                     afterExchange(variant, @, r, onTokenGiven, currentToken')]
  /\ UNCHANGED <<accessToken, cleared, variant, onTokenGiven, chainIdOption, started>>

ConcRetry(s) ==
  /\ call[s].pc = "Retried"
  /\ \E r \in ConcResourceResponses : call' = [call EXCEPT ![s] = afterRetry(@, r)]
  /\ UNCHANGED <<accessToken, cleared, variant, onTokenGiven, chainIdOption, currentToken, issued, started>>

NextConc ==
  \E s \in Slots :
    \/ ConcStart(s)
    \/ ConcFirst(s)
    \/ ConcNonce(s)
    \/ SignerReturns(s)
    \/ Rejects(s)
    \/ ConcExchange(s)
    \/ ConcRetry(s)
    \/ Return(s)

SpecConc == InitConc /\ [][NextConc]_vars

-----------------------------------------------------------------------------
(* Every awaited call settling in the end *)

\* The three implementations, one invocation at a time, with servers that
\* answer with fewer kinds of response than in Spec: the resource with a
\* success, an error that is no challenge, a 401 without header and a challenge.
LiveResourceResponses ==
  ConcResourceResponses \cup
  { [status |-> 403, www |-> NoHeader, body |-> EmptyObject],
    [status |-> 401, www |-> NoHeader, body |-> EmptyObject] }

LiveFirst(s) ==
  /\ call[s].pc = "FirstAttempted"
  /\ \E r \in LiveResourceResponses : call' = [call EXCEPT ![s] = afterFirst(variant, @, r)]
  /\ UNCHANGED <<accessToken, cleared, variant, onTokenGiven, chainIdOption, currentToken, issued, started>>

LiveRetry(s) ==
  /\ call[s].pc = "Retried"
  /\ \E r \in LiveResourceResponses :
       call' = [call EXCEPT ![s] = IF variant = "fetchWithOAuth" THEN afterRetryApp(@, r)
                                   ELSE afterRetry(@, r)]
  /\ UNCHANGED <<accessToken, cleared, variant, onTokenGiven, chainIdOption, currentToken, issued, started>>

\* The call an invocation awaits comes back or fails: fetch settles, the signer
\* answers or declines.
Settles(s) ==
  \/ Rejects(s)
  \/ LiveFirst(s)
  \/ ConcNonce(s)
  \/ SignerReturns(s)
  \/ ConcExchange(s)
  \/ LiveRetry(s)

NextLive == \E s \in Slots : Start(s) \/ Settles(s) \/ Return(s)

\* Nothing makes a caller call, or take its result; what is awaited settles.
SpecLive == Init /\ [][NextLive]_vars /\ \A s \in Slots : WF_vars(Settles(s))

-----------------------------------------------------------------------------
(* A nonce endpoint that never gives the same nonce twice *)

\* authFetch or createAuthFetch, one invocation in each slot, at once or one
\* after the other; the invocations stay where they ended, so what each did
\* with its nonce can be compared.  The nonce endpoint answers each request
\* with a nonce it has not given before, or refuses.
NonceName == <<"N1", "N2", "N3">>
NoncesGiven == Cardinality({t \in Slots : Truthy(call[t].nonceResponse.body.nonce)})

InitNonce ==
  /\ variant \in {"authFetch", "createAuthFetch"}
  /\ onTokenGiven = FALSE
  /\ chainIdOption = 1
  /\ currentToken = Undefined
  /\ issued = Undefined
  /\ accessToken = Undefined
  /\ cleared = FALSE
  /\ started = 0
  /\ call = [s \in Slots |-> Idle]

\* FreshNonce gone wrong: fetchNonce keeps the first nonce it fetched and gives
\* it to every invocation after.
FreshNonceCached(s) ==
  /\ call[s].pc = "ChallengeDetected"
  /\ \E r \in { [status |-> 200, www |-> NoHeader,
                  body |-> [EmptyObject EXCEPT !.nonce =
                              IF NoncesGiven > 0 THEN NonceName[1]
                              ELSE NonceName[NoncesGiven + 1]]],
                 [status |-> 500, www |-> NoHeader, body |-> NotJson] } :
       call' = [call EXCEPT ![s] = afterNonce(variant, @, r, chainIdOption)]
  /\ UNCHANGED <<accessToken, cleared, variant, onTokenGiven, chainIdOption, currentToken, issued, started>>

\* The nonce endpoint answers the invocation's own request.
FreshNonce(s) ==
  /\ call[s].pc = "ChallengeDetected"
  /\ \E r \in { [status |-> 200, www |-> NoHeader,
                  body |-> [EmptyObject EXCEPT !.nonce = NonceName[NoncesGiven + 1]]],
                 [status |-> 500, www |-> NoHeader, body |-> NotJson] } :
       call' = [call EXCEPT ![s] = afterNonce(variant, @, r, chainIdOption)]
  /\ UNCHANGED <<accessToken, cleared, variant, onTokenGiven, chainIdOption, currentToken, issued, started>>

NextNonce ==
  \E s \in Slots :
    \/ ConcStart(s)
    \/ ConcFirst(s)
    \/ FreshNonce(s)
    \/ SignerReturns(s)
    \/ Rejects(s)
    \/ ConcExchange(s)
    \/ ConcRetry(s)

SpecNonce == InitNonce /\ [][NextNonce]_vars

-----------------------------------------------------------------------------
(* Two implementations given the same inputs and the same responses *)

\* Slot s1 runs the inline authFetch.  Slot s2 runs, on the same inputs, the
\* implementation named by variant: the one-shot authFetch, which is one
\* invocation of a createAuthFetch function made for it with the caller's
\* token (currentToken is that function's), or fetchWithOAuth.  Every call the
\* two make is answered alike.
Impl(s) == IF s = "s1" THEN "authFetch" ELSE variant

InitEquiv ==
  /\ variant \in {"createAuthFetch", "fetchWithOAuth"}
  /\ onTokenGiven \in BOOLEAN
  /\ chainIdOption \in (IF variant = "fetchWithOAuth" THEN {1} ELSE ChainIdOptions)
  /\ currentToken = Undefined
  /\ issued = Undefined
  /\ accessToken = Undefined
  /\ cleared = FALSE
  /\ started = 0
  /\ call = [s \in Slots |-> Idle]

\* EquivStart gone wrong: the one-shot authFetch makes its function without
\* handing it the caller's token.
EquivStartTokenDropped ==
  /\ started = 0
  /\ \E init \in (IF variant = "fetchWithOAuth" THEN {NoInit} ELSE CallerInits),
        token \in CallerTokens :
       /\ call' = [s \in Slots |->
                     start(call[s], init,
                           IF Impl(s) = "createAuthFetch" THEN Undefined ELSE token)]
       /\ currentToken' = Undefined
  /\ started' = started + 1
  /\ UNCHANGED <<accessToken, cleared, variant, onTokenGiven, chainIdOption, issued>>

\* Both are called with the same request and the same token.
EquivStart ==
  /\ started = 0
  /\ \E init \in (IF variant = "fetchWithOAuth" THEN {NoInit} ELSE CallerInits),
        token \in CallerTokens :
       /\ call' = [s \in Slots |-> start(call[s], init, token)]
       /\ currentToken' = IF variant = "createAuthFetch" THEN token ELSE Undefined
  /\ started' = started + 1
  /\ UNCHANGED <<accessToken, cleared, variant, onTokenGiven, chainIdOption, issued>>

\* Whoever awaits at pc takes the step.
At(pc) == {s \in Slots : call[s].pc = pc}

EquivFirst ==
  /\ At("FirstAttempted") # {}
  /\ \E r \in ResourceResponses :
       call' = [s \in Slots |-> IF s \in At("FirstAttempted")
                                THEN afterFirst(Impl(s), call[s], r) ELSE call[s]]
  /\ UNCHANGED <<accessToken, cleared, variant, onTokenGiven, chainIdOption, currentToken, issued, started>>

EquivNonce ==
  /\ At("ChallengeDetected") # {}
  /\ \E r \in NonceResponses :
       call' = [s \in Slots |-> IF s \in At("ChallengeDetected")
                                THEN afterNonce(Impl(s), call[s], r, chainIdOption)
                                ELSE call[s]]
  /\ UNCHANGED <<accessToken, cleared, variant, onTokenGiven, chainIdOption, currentToken, issued, started>>

EquivSign ==
  /\ At("MessageBuilt") # {}
  /\ call' = [s \in Slots |-> IF s \in At("MessageBuilt")
                               THEN afterSign(call[s], Signature) ELSE call[s]]
  /\ UNCHANGED <<accessToken, cleared, variant, onTokenGiven, chainIdOption, currentToken, issued, started>>

EquivExchange ==
  /\ At("Signed") # {}
  /\ \E r \in TokenResponses :
       /\ currentToken' = IF ExchangeResolves(r) /\ "s2" \in At("Signed")
                          THEN storeToken(variant, currentToken, r.body)
                          ELSE currentToken
       /\ issued' = IF ExchangeResolves(r) THEN r.body.access_token ELSE issued
       /\ call' = [s \in Slots |->
                     IF s \in At("Signed")
                     THEN afterExchange(Impl(s), call[s], r, onTokenGiven, currentToken')
                     ELSE call[s]]
  /\ UNCHANGED <<accessToken, cleared, variant, onTokenGiven, chainIdOption, started>>

EquivRetry ==
  /\ At("Retried") # {}
  /\ \E r \in ResourceResponses :
       call' = [s \in Slots |->
                  IF s \notin At("Retried") THEN call[s]
                  ELSE IF Impl(s) = "fetchWithOAuth" THEN afterRetryApp(call[s], r)
                  ELSE afterRetry(call[s], r)]
  /\ UNCHANGED <<accessToken, cleared, variant, onTokenGiven, chainIdOption, currentToken, issued, started>>

\* The call awaited at pc rejects, for whoever awaits it.
EquivRejects ==
  /\ \E pc \in Awaiting :
       /\ At(pc) # {}
       /\ call' = [s \in Slots |-> IF s \in At(pc) THEN rejected(call[s]) ELSE call[s]]
  /\ UNCHANGED <<accessToken, cleared, variant, onTokenGiven, chainIdOption, currentToken, issued, started>>

NextEquiv ==
  \/ EquivStart
  \/ EquivFirst
  \/ EquivNonce
  \/ EquivSign
  \/ EquivExchange
  \/ EquivRetry
  \/ EquivRejects

SpecEquiv == InitEquiv /\ [][NextEquiv]_vars

-----------------------------------------------------------------------------
(* useAuthorMessages *)

\* The hook keeps accessToken and runs fetchWithOAuth from two places: the
\* queryFn of messagesQuery (slot s1), which passes accessToken, and the
\* mutationFn of authorizeMutation (slot s2), which passes no token.  autoFetch
\* is left at its default (false), so the query runs only while there is a
\* token.  Each function goes on after its await and stores the token of the
\* result; clearAuth resets the state and stops neither.
Query == "s1"
Mutation == "s2"

InitHook ==
  /\ variant = "fetchWithOAuth"
  /\ onTokenGiven = FALSE
  /\ chainIdOption = 1
  /\ currentToken = Undefined
  /\ issued = Undefined
  /\ accessToken = Undefined
  /\ cleared = FALSE
  /\ started = 0
  /\ call = [s \in Slots |-> Idle]

\* messagesQuery fetches (first fetch, refresh, or refetch): enabled needs a token.
QueryRuns ==
  /\ call[Query].pc = "Initial"
  /\ Truthy(accessToken)
  /\ started < MaxCalls
  /\ call' = [call EXCEPT ![Query] = start(@, NoInit, accessToken)]
  /\ started' = started + 1
  /\ UNCHANGED <<accessToken, cleared, variant, onTokenGiven, chainIdOption, currentToken, issued>>

\* authorize(): authorizeMutation.mutate().
Authorize ==
  /\ call[Mutation].pc = "Initial"
  /\ started < MaxCalls
  /\ call' = [call EXCEPT ![Mutation] = start(@, NoInit, Undefined)]
  /\ started' = started + 1
  /\ cleared' = FALSE
  /\ UNCHANGED <<accessToken, variant, onTokenGiven, chainIdOption, currentToken, issued>>

\* The queryFn after its await: if (result.token) setAccessToken(result.token).
QuerySettles ==
  /\ call[Query].pc \in {"Done", "Failed"}
  /\ accessToken' = IF call[Query].outcome.kind = "data" /\ Truthy(call[Query].outcome.token)
                     THEN call[Query].outcome.token ELSE accessToken
  /\ call' = [call EXCEPT ![Query] = Idle]
  /\ UNCHANGED <<cleared, variant, onTokenGiven, chainIdOption, currentToken, issued, started>>

\* The mutationFn after its await: setAccessToken(result.token).
MutationSettles ==
  /\ call[Mutation].pc \in {"Done", "Failed"}
  /\ accessToken' = IF call[Mutation].outcome.kind = "data"
                     THEN call[Mutation].outcome.token ELSE accessToken
  /\ call' = [call EXCEPT ![Mutation] = Idle]
  /\ UNCHANGED <<cleared, variant, onTokenGiven, chainIdOption, currentToken, issued, started>>

\* clearAuth(): setAccessToken(undefined), setAuthError(undefined),
\* removeQueries.  A function that has its result goes on before any event is
\* handled, so clearAuth finds every flow either awaiting or over.
ClearAuth ==
  /\ \A s \in Slots : call[s].pc \notin {"Done", "Failed"}
  /\ accessToken' = Undefined
  /\ cleared' = TRUE
  /\ UNCHANGED <<variant, onTokenGiven, chainIdOption, currentToken, issued, started, call>>

NextHook ==
  \/ QueryRuns
  \/ Authorize
  \/ QuerySettles
  \/ MutationSettles
  \/ ClearAuth
  \/ \E s \in Slots :
       \/ ConcFirst(s)
       \/ ConcNonce(s)
       \/ SignerReturns(s)
       \/ ConcExchange(s)
       \/ LiveRetry(s)
       \/ Rejects(s)

SpecHook == InitHook /\ [][NextHook]_vars

-----------------------------------------------------------------------------
(* The parser over many headers *)

\* Pairs a header lists.
MaxPairs == 4

\* The keys the parser reads, and one it does not.
ParseKeys == {"realm", "scope", "token_uri", "chain_id", "signing_scheme", "x"}
\* How a header may write a key and its value: key="value", key="", key=value
\* and key="value with the closing quote missing.
Shapes == {"pair", "empty", "bare", "open"}
\* The value of the i-th pair: each place of the header has its own.
ValueAt(key, i) == IF key = "chain_id" THEN <<Digit[i + 1], "0">> ELSE <<Digit[i + 1]>>
Written(key, shape, i) ==
  <<", ", key, Equals>> \o
  (CASE shape = "pair" -> <<Quote>> \o ValueAt(key, i) \o <<Quote>>
     [] shape = "empty" -> <<Quote, Quote>>
     [] shape = "bare" -> ValueAt(key, i)
     [] shape = "open" -> <<Quote>> \o ValueAt(key, i))
RECURSIVE WrittenFrom(_, _, _, _)
WrittenFrom(keys, i, odd, shape) ==
  IF i > Len(keys) THEN <<>>
  ELSE Written(keys[i], IF i = odd THEN shape ELSE "pair", i)
       \o WrittenFrom(keys, i + 1, odd, shape)
\* The header that lists keys in order, the one at place odd written in shape
\* (odd = 0: every one a proper pair).
HeaderOf(keys, odd, shape) == <<"Bearer">> \o WrittenFrom(keys, 1, odd, shape)

InitParse ==
  /\ variant = "authFetch"
  /\ onTokenGiven = FALSE
  /\ chainIdOption = 1
  /\ currentToken = Undefined
  /\ issued = Undefined
  /\ accessToken = Undefined
  /\ cleared = FALSE
  /\ started = 0
  /\ call = [s \in Slots |-> Idle]

\* One invocation, without a token.
ParseStart(s) ==
  /\ started = 0 /\ s = "s1"
  /\ call[s].pc = "Initial"
  /\ call' = [call EXCEPT ![s] = start(@, NoInit, Undefined)]
  /\ started' = started + 1
  /\ UNCHANGED <<accessToken, cleared, variant, onTokenGiven, chainIdOption, currentToken, issued>>

\* The resource answers 401 with any of the headers.
ParseChallenge(s) ==
  /\ call[s].pc = "FirstAttempted"
  /\ \E n \in 0..MaxPairs :
       \E keys \in [1..n -> ParseKeys], odd \in 0..n, shape \in Shapes \ {"pair"} :
         call' = [call EXCEPT ![s] =
                    afterFirst(variant, @,
                               [status |-> 401,
                                www |-> HeaderText(HeaderOf(keys, odd, shape)),
                                body |-> EmptyObject])]
  /\ UNCHANGED <<accessToken, cleared, variant, onTokenGiven, chainIdOption, currentToken, issued, started>>

NextParse == \E s \in Slots : ParseStart(s) \/ ParseChallenge(s)

SpecParse == InitParse /\ [][NextParse]_vars

-----------------------------------------------------------------------------
(* What the claims speak of *)

Called(c, what) == \E i \in 1..Len(c.log) : c.log[i] = what
Count(c, what) == Cardinality({i \in 1..Len(c.log) : c.log[i] = what})
Ended(c) == c.pc \in {"Done", "Failed"}
\* The first response has arrived.
Answered(c) == c.response # NoResponse
\* The first response is a 401 that carries no challenge the parser accepts.
Unchallenged(c) ==
  /\ c.response.status = 401
  /\ ~c.response.www.present \/ ~Challenge(c).valid
\* The first response is a 401 with a challenge under a scheme other than eip4361.
OtherScheme(c) ==
  LET challenge == Challenge(c)
  IN /\ c.response.status = 401 /\ c.response.www.present /\ challenge.valid
     /\ challenge.signingScheme # <<"eip4361">>

\* C1: an invocation whose first response is not a 401 has made one HTTP call,
\* the original request, and has called neither the nonce endpoint, nor the
\* signer, nor the token endpoint; it has ended.
C1_OneCallWhenNot401 ==
  \A s \in Slots :
    LET c == call[s]
    IN Answered(c) /\ c.response.status # 401 => Ended(c) /\ c.log = <<"request">>

C1_Witness ==
  \E s \in Slots :
    /\ call[s].response.status = 500 /\ call[s].response.www.present
    /\ Ended(call[s]) /\ call[s].log = <<"request">>

\* C2 as stated: a first response that is not a 401, an error status included,
\* ends every implementation in Done with that response as the result.
C2_AsStated ==
  \A s \in Slots :
    LET c == call[s]
    IN Answered(c) /\ c.response.status # 401
         => c.pc = "Done" /\ c.outcome = Returned(c.response)

\* C2 amended: authFetch and createAuthFetch end in Done with that response as
\* the result, whatever its status.  fetchWithOAuth ends in Done only when the
\* response is ok with a JSON body, returning the parsed body and the token it
\* was given ("" when none); a status that is not ok is thrown as "Request
\* failed: <status>", and an ok body that is not JSON as the parse error.
C2_PassThrough ==
  \A s \in Slots :
    LET c == call[s]
        r == c.response
    IN Answered(c) /\ r.status # 401 =>
         IF variant # "fetchWithOAuth"
         THEN c.pc = "Done" /\ c.outcome = Returned(r)
         ELSE /\ ~Ok(r) => /\ c.pc = "Failed"
                           /\ c.outcome = Thrown(Error("Request failed: ", r.status, <<>>))
              /\ Ok(r) /\ ~r.body.json => c.pc = "Failed" /\ c.outcome = Thrown(JsonFailed)
              /\ Ok(r) /\ r.body.json =>
                   /\ c.pc = "Done"
                   /\ c.outcome = ReturnedData(r, IF Truthy(c.token) THEN c.token ELSE "")

C2_Witness ==
  \E s \in Slots :
    /\ variant = "authFetch" /\ call[s].response.status = 403
    /\ call[s].pc = "Done" /\ call[s].outcome = Returned(call[s].response)

\* C3 as stated: a 401 without a WWW-Authenticate header, or with one that does
\* not parse to a challenge, is returned as the result by every implementation,
\* and nothing but the original request is called.
C3_AsStated ==
  \A s \in Slots :
    LET c == call[s]
    IN Unchallenged(c)
         => c.pc = "Done" /\ c.outcome = Returned(c.response) /\ c.log = <<"request">>

\* C3 amended: authFetch and createAuthFetch return that 401 as the result.
\* fetchWithOAuth throws instead: "Missing WWW-Authenticate header in 401
\* response" without the header, "Failed to parse WWW-Authenticate challenge"
\* with one that does not parse.  None of them calls the nonce endpoint, the
\* signer or the token endpoint, or retries.
C3_NoChallenge ==
  \A s \in Slots :
    LET c == call[s]
    IN Unchallenged(c) =>
         /\ c.log = <<"request">>
         /\ IF variant # "fetchWithOAuth"
            THEN c.pc = "Done" /\ c.outcome = Returned(c.response)
            ELSE /\ c.pc = "Failed"
                 /\ c.outcome.kind = "throw"
                 /\ c.outcome.error.message =
                      IF c.response.www.present
                      THEN "Failed to parse WWW-Authenticate challenge"
                      ELSE "Missing WWW-Authenticate header in 401 response"

C3_Witness ==
  \E s \in Slots :
    /\ variant = "createAuthFetch"
    /\ call[s].response.status = 401 /\ call[s].response.www.present
    /\ ~Challenge(call[s]).valid
    /\ call[s].pc = "Done" /\ call[s].outcome = Returned(call[s].response)

\* C4: a challenge whose signing scheme is not eip4361 ends the invocation in
\* Failed with the unsupported-scheme error naming that scheme, and nothing but
\* the original request has been called: no nonce, no signer, no exchange, no retry.
C4_UnsupportedScheme ==
  \A s \in Slots :
    LET c == call[s]
    IN OtherScheme(c) =>
         /\ c.pc = "Failed"
         /\ c.outcome = Thrown(Error("Unsupported signing scheme: ", 0,
                                     Challenge(c).signingScheme))
         /\ c.log = <<"request">>

C4_Witness ==
  \E s \in Slots :
    /\ OtherScheme(call[s]) /\ Challenge(call[s]).signingScheme = <<"unknownscheme">>
    /\ call[s].pc = "Failed"

\* What the invocation has called, the onToken callback left out.
External(c) == SelectSeq(c.log, LAMBDA what : what # "onToken")
FlowOrder == <<"request", "nonce", "sign", "exchange", "retry">>
IsPrefix(a, b) == Len(a) <= Len(b) /\ a = SubSeq(b, 1, Len(a))
LastCalled(c) == c.log[Len(c.log)]

\* C5: what an invocation calls is a prefix of: original request, nonce fetch,
\* signer, token exchange, retried request, so each happens at most once and in
\* that order; at most one call is awaited at any time, the one made last, so
\* none starts before the one before it has come back.
C5_StrictOrder ==
  \A s \in Slots :
    LET c == call[s]
    IN /\ IsPrefix(External(c), FlowOrder)
       /\ Cardinality(c.pending) <= 1
       /\ c.pending # {} => c.pending = {LastCalled(c)}

C5_Witness ==
  \E s \in Slots : External(call[s]) = FlowOrder /\ call[s].pc = "Done"

\* The nonce fetch, the signer or the token exchange has failed.
StepFailed(c, step) ==
  \/ c.rejected = step
  \/ /\ step = "nonce" /\ c.nonceResponse # NoResponse
     /\ ~(Ok(c.nonceResponse) /\ c.nonceResponse.body.json)
  \/ /\ step = "exchange" /\ c.exchangeResponse # NoResponse
     /\ ~ExchangeResolves(c.exchangeResponse)

\* C6: once the nonce fetch, the signer or the token exchange has failed, the
\* invocation is in Failed with an error thrown to the caller (the rejection
\* itself when the call rejected, "Failed to fetch nonce: <status>" for a nonce
\* status that is not ok); the failed step is the last thing it called, each
\* step was called once, the original request was never sent again and onToken
\* was never called.
C6_FailureAborts ==
  \A s \in Slots : \A step \in {"nonce", "sign", "exchange"} :
    LET c == call[s]
    IN StepFailed(c, step) =>
         /\ c.pc = "Failed" /\ c.outcome.kind = "throw" /\ c.outcome.error # NoError
         /\ LastCalled(c) = step
         /\ IsPrefix(c.log, FlowOrder)
         /\ ~Called(c, "retry") /\ ~Called(c, "onToken") /\ c.onTokenCalls = <<>>
         /\ c.rejected = "sign" => c.outcome = Thrown(UserRejected)
         /\ c.rejected \in {"nonce", "exchange"} => c.outcome = Thrown(FetchFailed)
         /\ step = "nonce" /\ c.rejected = "" /\ ~Ok(c.nonceResponse)
              => c.outcome = Thrown(Error("Failed to fetch nonce: ",
                                          c.nonceResponse.status, <<>>))

C6_Witness ==
  \E s \in Slots :
    /\ call[s].rejected = "sign" /\ call[s].pc = "Failed"
    /\ call[s].log = <<"request", "nonce", "sign">>

\* exchangeToken has resolved with a token response.
ExchangeSucceeded(c) ==
  c.exchangeResponse # NoResponse /\ ExchangeResolves(c.exchangeResponse)

\* C7 as stated: in every implementation, once the exchange has succeeded the
\* caller has the token: through onToken (when one was supplied) in authFetch
\* and createAuthFetch, in the returned { data, token } in fetchWithOAuth.  It
\* has it from before the retry goes out, whatever becomes of the retry.
C7_AsStated ==
  \A s \in Slots :
    LET c == call[s]
        granted == c.exchangeResponse.body
    IN ExchangeSucceeded(c) =>
         IF variant = "fetchWithOAuth"
         THEN c.outcome.kind = "data" /\ c.outcome.token = granted.access_token
         ELSE onTokenGiven => c.onTokenCalls = << <<granted.access_token, granted.scope>> >>

\* C7 amended: in authFetch and createAuthFetch, once the exchange has succeeded
\* onToken (when supplied) has been called exactly once, with the new access
\* token and its granted scope, after the exchange and before the retry went
\* out, and that stays so whatever becomes of the retry.  fetchWithOAuth has no
\* sink: it hands the token back only in its result, and has a result only when
\* the retry's response is ok with a JSON body; when the retry fails or answers
\* with a status that is not ok, the caller never gets the token.
C7_TokenSink ==
  \A s \in Slots :
    LET c == call[s]
        granted == c.exchangeResponse.body
    IN ExchangeSucceeded(c) =>
         IF variant = "fetchWithOAuth"
         THEN /\ c.onTokenCalls = <<>>
              /\ c.outcome.kind = "data" <=> c.pc = "Done"
              /\ c.pc = "Done" <=> c.retryResponse # NoResponse /\ Ok(c.retryResponse)
                                     /\ c.retryResponse.body.json
              /\ c.pc = "Done" => c.outcome.token = granted.access_token
         ELSE IF onTokenGiven
         THEN /\ c.onTokenCalls = << <<granted.access_token, granted.scope>> >>
              /\ c.log = <<"request", "nonce", "sign", "exchange", "onToken", "retry">>
         ELSE c.onTokenCalls = <<>> /\ ~Called(c, "onToken")

C7_Witness ==
  \E s \in Slots :
    /\ variant = "authFetch" /\ onTokenGiven /\ ExchangeSucceeded(call[s])
    /\ call[s].pc = "Failed" /\ call[s].rejected = "retry"
    /\ call[s].onTokenCalls = << <<TokenName[1], ScopeAB>> >>

\* The retry has been answered.
RetryAnswered(c) == c.retryResponse # NoResponse

\* C8 as stated: in every implementation the retry's response, whatever its
\* status, ends the invocation in Done as its result, and the resource was sent
\* at most two requests.
C8_AsStated ==
  \A s \in Slots :
    LET c == call[s]
    IN /\ Count(c, "request") + Count(c, "retry") <= 2
       /\ RetryAnswered(c) => /\ c.pc = "Done" /\ c.outcome.kind # "throw"
                              /\ c.outcome.response = c.retryResponse

\* C8 amended: after a successful exchange the original request is sent again
\* exactly once, and never without one; no second challenge flow follows, so
\* the resource is sent at most two requests and the nonce endpoint at most
\* one.  authFetch and createAuthFetch end in Done with the retry's response as
\* the result, whatever its status, a second 401 with a valid challenge
\* included.  fetchWithOAuth ends in Done, with the parsed body, only when the
\* retry's response is ok with a JSON body; a status that is not ok is thrown
\* as "Request failed after auth: <status>", a body that is not JSON as the
\* parse error.
C8_SingleRetry ==
  \A s \in Slots :
    LET c == call[s]
        r == c.retryResponse
    IN /\ Count(c, "request") <= 1 /\ Count(c, "retry") <= 1 /\ Count(c, "nonce") <= 1
       /\ Called(c, "retry") <=> ExchangeSucceeded(c)
       /\ RetryAnswered(c) =>
            /\ LastCalled(c) = "retry"
            /\ IF variant # "fetchWithOAuth"
               THEN c.pc = "Done" /\ c.outcome = Returned(r)
               ELSE /\ ~Ok(r) => /\ c.pc = "Failed"
                                 /\ c.outcome = Thrown(Error("Request failed after auth: ",
                                                             r.status, <<>>))
                    /\ Ok(r) /\ ~r.body.json => c.pc = "Failed" /\ c.outcome = Thrown(JsonFailed)
                    /\ Ok(r) /\ r.body.json => c.pc = "Done" /\ c.outcome.kind = "data"
                                                /\ c.outcome.response = r

C8_Witness ==
  \E s \in Slots :
    /\ variant = "authFetch"
    /\ call[s].retryResponse.status = 401 /\ call[s].retryResponse.www.present
    /\ parseWWWAuthenticateChallenge(call[s].retryResponse.www.value).valid
    /\ call[s].pc = "Done" /\ call[s].outcome = Returned(call[s].retryResponse)

\* C9: the retried request is the original one (same target, same method, same
\* body, same headers other than Authorization) with exactly one Authorization
\* value: "Bearer " and the access token of this invocation's token response.
\* Neither the caller's own Authorization nor the first attempt's token is in it.
C9_RetryAuthorization ==
  \A s \in Slots :
    LET c == call[s]
        sent == c.retryReq
    IN Called(c, "retry") =>
         /\ sent.input = c.firstReq.input
         /\ sent.init.method = c.init.method /\ sent.init.body = c.init.body
         /\ sent.init.headers["Authorization"]
              = <<Bearer(c.exchangeResponse.body.access_token)>>
         /\ \A n \in HeaderNames \ {"Authorization"} :
              sent.init.headers[n] = c.init.headers[n]

C9_Witness ==
  \E s \in Slots :
    /\ Called(call[s], "retry")
    /\ call[s].firstReq.init.headers["Authorization"] = <<Bearer(TokenName[1])>>
    /\ call[s].init.headers["Authorization"] # <<>>
    /\ call[s].retryReq.init.headers["Authorization"] = <<Bearer(TokenName[2])>>

\* C10: the first attempt carries "Bearer <token>" as its one Authorization
\* value exactly when the invocation has a token (the caller's, or the cached
\* one in createAuthFetch; the empty string counts as none); without one it
\* carries the caller's headers as they are.  The first attempt is sent once,
\* and when it rejects the invocation is in Failed with that rejection and has
\* called nothing else.
C10_FirstAttempt ==
  \A s \in Slots :
    LET c == call[s]
        sent == c.firstReq.init.headers
    IN c.pc # "Initial" =>
         /\ Truthy(c.token) <=> sent["Authorization"] = <<Bearer(c.token)>>
         /\ ~Truthy(c.token) => sent = c.init.headers
         /\ variant = "createAuthFetch" /\ c.pc = "FirstAttempted" => c.token = currentToken
         /\ Count(c, "request") = 1
         /\ c.rejected = "request" =>
              c.pc = "Failed" /\ c.outcome = Thrown(FetchFailed) /\ c.log = <<"request">>

C10_Witness ==
  \E s \in Slots :
    /\ variant = "createAuthFetch" /\ started = 2
    /\ call[s].token = TokenName[2] /\ call[s].rejected = "request"
    /\ call[s].firstReq.init.headers["Authorization"] = <<Bearer(TokenName[2])>>

\* C11: in createAuthFetch, an invocation made after an earlier one obtained a
\* token (the latest token response carried an access_token) sends that token
\* as "Bearer <token>" on its first attempt; when the resource answers that
\* attempt with anything but a 401, the invocation has ended having fetched
\* no nonce, asked for no signature and exchanged no token.
C11_CachedTokenFastPath ==
  \A s \in Slots :
    LET c == call[s]
    IN variant = "createAuthFetch" /\ Truthy(issued) /\ c.pc # "Initial"
       /\ ~Called(c, "exchange")
         => /\ c.token = issued
            /\ c.firstReq.init.headers["Authorization"] = <<Bearer(issued)>>
            /\ Answered(c) /\ c.response.status # 401
                 => /\ Ended(c) /\ c.outcome = Returned(c.response)
                    /\ Count(c, "nonce") = 0 /\ Count(c, "sign") = 0
                    /\ Count(c, "exchange") = 0 /\ Count(c, "retry") = 0

C11_Witness ==
  \E s \in Slots :
    /\ variant = "createAuthFetch" /\ started = 2 /\ issued = TokenName[2]
    /\ call[s].init.headers["Authorization"] # <<>>
    /\ call[s].firstReq.init.headers["Authorization"] = <<Bearer(TokenName[2])>>
    /\ call[s].response.status = 200 /\ call[s].pc = "Done"
    /\ call[s].log = <<"request">>

\* The first response is a 401 with a challenge the code takes up.
Challenged(c) ==
  /\ c.response.status = 401 /\ c.response.www.present
  /\ Challenge(c).valid /\ Challenge(c).signingScheme = <<"eip4361">>

\* C12: invocations of one createAuthFetch function that run at once are not
\* coordinated.  A challenged invocation goes on to its own nonce fetch, even
\* when the other invocation has stored a newer token since its first attempt:
\* it reuses no token.  An invocation that has retried has made its own nonce
\* fetch, signer call and exchange, once each, and has retried with the token
\* of its own exchange, whatever currentToken has become since.
C12_Uncoordinated ==
  \A s \in Slots :
    LET c == call[s]
    IN /\ Challenged(c) => Called(c, "nonce")
       /\ Called(c, "retry") =>
            /\ Count(c, "nonce") = 1 /\ Count(c, "sign") = 1 /\ Count(c, "exchange") = 1
            /\ c.retryReq.init.headers["Authorization"]
                 = <<Bearer(c.exchangeResponse.body.access_token)>>

\* Neither invocation waits for the other: two signature prompts are pending
\* at once, both invocations having been challenged on the same token.
C12_Witness ==
  \E s, t \in Slots :
    /\ s # t /\ call[s].pc = "MessageBuilt" /\ call[t].pc = "MessageBuilt"
    /\ call[s].pending = {"sign"} /\ call[t].pending = {"sign"}
    /\ call[s].token = TokenName[1] /\ call[t].token = TokenName[1]

\* Where a header has a key="value" pair with a value that is not empty: the
\* places of the keys (a word chunk that no word chunk precedes), read off the
\* text alone.
PairsOf(h) ==
  { i \in 1..Len(h) :
      /\ IsWord(h[i]) /\ (i = 1 \/ ~IsWord(h[i - 1]))
      /\ i + 4 <= Len(h) /\ h[i + 1] = Equals /\ h[i + 2] = Quote /\ h[i + 3] # Quote
      /\ \E q \in (i + 4)..Len(h) : h[q] = Quote }
\* The quote that closes the pair at i (the first one after its value begins),
\* and the value between the quotes.
CloseOf(h, i) ==
  LET quotes == {q \in (i + 4)..Len(h) : h[q] = Quote}
  IN CHOOSE q \in quotes : \A r \in quotes : q <= r
ValueOf(h, i) == SubSeq(h, i + 3, CloseOf(h, i) - 1)
\* Among the pairs at the places P: those of one key, and the values they give it.
KeyPairs(h, P, key) == {i \in P : h[i] = key}
Values(h, P, key) == {ValueOf(h, i) : i \in KeyPairs(h, P, key)}
Occurs(h, P, key) == \E i \in P : h[i] = key
\* The value of the last pair of a key that occurs.
LastValue(h, P, key) ==
  LET K == KeyPairs(h, P, key) IN ValueOf(h, CHOOSE i \in K : \A j \in K : j <= i)
\* The pairs stand apart: none begins between the quotes of another.
Apart(h, P) == \A i \in P : \A j \in P : i < j => CloseOf(h, i) < j
Required == {"realm", "scope", "token_uri"}
\* The header of the first response.
Received(c) == c.response.www.value

\* C13 as stated: for every header, the parser returns no challenge when realm,
\* scope or token_uri occurs in no key="value" pair with a value that is not
\* empty, and returns a challenge that carries their values when all three
\* occur in one.
C13_AsStated ==
  \A s \in Slots :
    LET c == call[s]
        h == Received(c)
        P == PairsOf(h)
        challenge == Challenge(c)
    IN Answered(c) =>
         /\ (\E key \in Required : ~Occurs(h, P, key)) => ~challenge.valid
         /\ (\A key \in Required : Occurs(h, P, key)) =>
              /\ challenge.valid
              /\ challenge.realm \in Values(h, P, "realm")
              /\ challenge.scope \in Values(h, P, "scope")
              /\ challenge.tokenUri \in Values(h, P, "token_uri")

\* C13 amended: for every header, the parser returns no challenge when realm,
\* scope or token_uri occurs in no key="value" pair with a value that is not
\* empty.  When all three occur in one and the header's pairs stand apart (no
\* pair begins between the quotes of another, as one does after a value whose
\* closing quote is missing), it returns a challenge that carries their values;
\* a pair that begins between the quotes of another is not read.  An invocation
\* that gets no challenge calls nothing further.
C13_RequiredParams ==
  \A s \in Slots :
    LET c == call[s]
        h == Received(c)
        P == PairsOf(h)
        challenge == Challenge(c)
    IN Answered(c) =>
         /\ (\E key \in Required : ~Occurs(h, P, key)) =>
              ~challenge.valid /\ c.log = <<"request">>
         /\ (\A key \in Required : Occurs(h, P, key)) /\ Apart(h, P) =>
              /\ challenge.valid
              /\ challenge.realm \in Values(h, P, "realm")
              /\ challenge.scope \in Values(h, P, "scope")
              /\ challenge.tokenUri \in Values(h, P, "token_uri")
         /\ challenge.valid => \A key \in Required : Occurs(h, P, key)

\* A header with all three pairs and an empty realm after them is parsed; one
\* with only an empty realm is not (see C13_Refused).
C13_Witness ==
  \E s \in Slots :
    /\ Answered(call[s]) /\ Challenge(call[s]).valid
    /\ Received(call[s]) = HeaderOf(<<"scope", "realm", "token_uri", "realm">>, 4, "empty")
    /\ Challenge(call[s]).realm = <<"2">>
    /\ call[s].log = <<"request", "nonce">>

\* The number a string of digits writes in base 10.
RECURSIVE Decimal(_)
Decimal(digits) ==
  IF digits = <<>> THEN 0
  ELSE 10 * Decimal(SubSeq(digits, 1, Len(digits) - 1)) + DigitValue(digits[Len(digits)])

\* C14: in a valid header (one whose pairs stand apart), a key that occurs more
\* than once has the value of its last occurrence, for each of realm, scope,
\* token_uri, chain_id and signing_scheme; whether a challenge is returned and
\* what it carries is settled by the last values of these five keys, so no
\* other key has a say.
C14_LastWins ==
  \A s \in Slots :
    LET c == call[s]
        h == Received(c)
        P == PairsOf(h)
        challenge == Challenge(c)
    IN Answered(c) /\ Apart(h, P) =>
         /\ challenge.valid <=> \A key \in Required : Occurs(h, P, key)
         /\ challenge.valid =>
              /\ challenge.realm = LastValue(h, P, "realm")
              /\ challenge.scope = LastValue(h, P, "scope")
              /\ challenge.tokenUri = LastValue(h, P, "token_uri")
              /\ challenge.chainId = IF Occurs(h, P, "chain_id")
                                     THEN Decimal(LastValue(h, P, "chain_id")) ELSE 1
              /\ challenge.signingScheme = IF Occurs(h, P, "signing_scheme")
                                           THEN LastValue(h, P, "signing_scheme")
                                           ELSE <<"eip4361">>

C14_Witness ==
  \E s \in Slots :
    /\ Answered(call[s])
    /\ Received(call[s]) = HeaderOf(<<"token_uri", "realm", "scope", "token_uri">>, 0, "open")
    /\ Cardinality(Values(Received(call[s]), PairsOf(Received(call[s])), "token_uri")) = 2
    /\ Challenge(call[s]).tokenUri = <<"4">>
    /\ call[s].nonceReq = <<"4">>

\* C15: in a challenge the parser returns, chainId is 1 when the header has no
\* chain_id pair and the number its chain_id writes in base 10 when it has
\* one; signingScheme is "eip4361" when the header has no signing_scheme pair
\* and the header's value when it has one.  (The pairs are those of a header
\* whose pairs stand apart; an empty chain_id="" or signing_scheme="" is no
\* pair and leaves the default.)
C15_Defaults ==
  \A s \in Slots :
    LET c == call[s]
        h == Received(c)
        P == PairsOf(h)
        challenge == Challenge(c)
    IN Answered(c) /\ challenge.valid =>
         /\ ~Occurs(h, P, "chain_id") => challenge.chainId = 1
         /\ ~Occurs(h, P, "signing_scheme") => challenge.signingScheme = <<"eip4361">>
         /\ Apart(h, P) /\ Occurs(h, P, "chain_id") =>
              \E v \in Values(h, P, "chain_id") : challenge.chainId = Decimal(v)
         /\ Apart(h, P) /\ Occurs(h, P, "signing_scheme") =>
              challenge.signingScheme \in Values(h, P, "signing_scheme")

C15_Witness ==
  \E s \in Slots :
    /\ Answered(call[s]) /\ Challenge(call[s]).valid
    /\ Received(call[s]) = HeaderOf(<<"realm", "chain_id", "scope", "token_uri">>, 0, "open")
    /\ Challenge(call[s]).chainId = 20
    /\ Challenge(call[s]).signingScheme = <<"eip4361">>

\* Where "/token" first stands in a URI (0: nowhere).
FirstToken(uri) ==
  LET at == {k \in 1..Len(uri) : uri[k] = "/token"}
  IN IF at = {} THEN 0 ELSE CHOOSE k \in at : \A j \in at : k <= j
\* The URI with its first "/token" turned into "/nonce" where it stands.
InPlace(uri) ==
  IF FirstToken(uri) = 0 THEN uri ELSE [uri EXCEPT ![FirstToken(uri)] = "/nonce"]
\* The URI with its first "/token" taken out, and "/nonce" put at the end.
AtTheEnd(uri) ==
  (IF FirstToken(uri) = 0 THEN uri
   ELSE SubSeq(uri, 1, FirstToken(uri) - 1) \o SubSeq(uri, FirstToken(uri) + 1, Len(uri)))
  \o <<"/nonce">>

\* C16 as stated: in every implementation the nonce request goes to the
\* challenge's tokenUri with its first "/token" replaced by "/nonce" in place,
\* and to tokenUri as it is when it holds no "/token".
C16_AsStated ==
  \A s \in Slots :
    LET c == call[s]
    IN Called(c, "nonce") => c.nonceReq = InPlace(Challenge(c).tokenUri)

\* C16 amended: in authFetch and createAuthFetch the nonce request goes to the
\* challenge's tokenUri with its first "/token" replaced by "/nonce" in place,
\* and to tokenUri as it is when it holds no "/token".  In fetchWithOAuth it
\* goes to tokenUri with its first "/token" taken out and "/nonce" put at the
\* end: the same URL when "/token" occurs once, at the end of tokenUri, and a
\* different one otherwise (tokenUri followed by "/nonce" when it holds no
\* "/token").
C16_NonceUrl ==
  \A s \in Slots :
    LET c == call[s]
        uri == Challenge(c).tokenUri
    IN Called(c, "nonce") =>
         /\ c.nonceReq = IF variant = "fetchWithOAuth" THEN AtTheEnd(uri) ELSE InPlace(uri)
         /\ FirstToken(uri) = Len(uri) => c.nonceReq = InPlace(uri)

C16_Witness ==
  \E s \in Slots :
    /\ variant = "createAuthFetch" /\ Called(call[s], "nonce")
    /\ Challenge(call[s]).tokenUri = TokenUriTwice
    /\ call[s].nonceReq = <<"https://as.example.com", "/nonce", "s", "/token">>

\* The nonce endpoint has answered with a success status and a body that is
\* not JSON or has no nonce field.
NonceMissing(c) ==
  /\ c.nonceResponse # NoResponse /\ Ok(c.nonceResponse)
  /\ ~c.nonceResponse.body.json \/ c.nonceResponse.body.nonce = Undefined

\* C17 as stated: when the nonce endpoint answers with a success status and a
\* body that is not JSON or has no nonce field, the invocation is in Failed: no
\* message was built, the signer was not called, and there was no exchange and
\* no retry.
C17_AsStated ==
  \A s \in Slots :
    LET c == call[s]
    IN NonceMissing(c) =>
         /\ c.pc = "Failed"
         /\ c.siweMessage = NoMessage
         /\ c.log = <<"request", "nonce">>

\* What the code does with a JSON body without a nonce field: the signer is
\* asked to sign a message whose nonce is undefined.
C17_Witness ==
  \E s \in Slots :
    /\ call[s].nonceResponse.status = 200 /\ call[s].nonceResponse.body = EmptyObject
    /\ call[s].pc = "MessageBuilt" /\ call[s].pending = {"sign"}
    /\ call[s].signed.nonce = Undefined

\* The token endpoint has answered with a status that is not a success.
ExchangeRefused(c) == c.exchangeResponse # NoResponse /\ ~Ok(c.exchangeResponse)

\* C18 as stated: when the token endpoint answers with a status that is not a
\* success, the invocation is in Failed with an error whose message is the
\* body's error field when the body is JSON and has one, and the message made
\* from the status otherwise, a body that is not JSON included.
C18_AsStated ==
  \A s \in Slots :
    LET c == call[s]
        r == c.exchangeResponse
    IN ExchangeRefused(c) =>
         /\ c.pc = "Failed"
         /\ c.outcome = Thrown(IF r.body.json /\ Truthy(r.body.error)
                               THEN Error(r.body.error, 0, <<>>)
                               ELSE Error("Token exchange failed: ", r.status, <<>>))

\* What fetchWithOAuth does with an error body that is not JSON: it fails with
\* the body-parsing error.
C18_Witness ==
  \E s \in Slots :
    /\ variant = "fetchWithOAuth"
    /\ call[s].exchangeResponse.status = 400 /\ ~call[s].exchangeResponse.body.json
    /\ call[s].pc = "Failed" /\ call[s].outcome = Thrown(JsonFailed)

\* C19: the token-exchange request of an invocation is a POST, with a JSON
\* body, to the tokenUri of the challenge of that invocation's first response;
\* the body carries grant_type "eth_signature", the very message the signer was
\* given, the very signature the signer returned, and the challenge's scope
\* string as the header gave it, spaces and all.
C19_ExchangeRequest ==
  \A s \in Slots :
    LET c == call[s]
        sent == c.exchangeReq
        challenge == Challenge(c)
    IN Called(c, "exchange") =>
         /\ sent.input = challenge.tokenUri
         /\ sent.method = "POST" /\ sent.contentType = "application/json"
         /\ sent.grant_type = "eth_signature"
         /\ sent.message = c.signed /\ c.signed # NoMessage
         /\ sent.signature = c.signature /\ c.signature = Signature
         /\ sent.scope = challenge.scope
         /\ sent.scope = LastValue(Received(c), PairsOf(Received(c)), "scope")

C19_Witness ==
  \E s \in Slots :
    /\ Called(call[s], "exchange")
    /\ call[s].exchangeReq.input = TokenUriTwice
    /\ call[s].exchangeReq.scope = ScopeGap
    /\ call[s].exchangeReq.message.resources # <<>>
    /\ call[s].exchangeReq.signature = Signature

\* The pieces put together again, a space between each two.
RECURSIVE Join(_)
Join(pieces) ==
  IF Len(pieces) = 0 THEN <<>>
  ELSE IF Len(pieces) = 1 THEN pieces[1]
  ELSE pieces[1] \o <<" ">> \o Join(Tail(pieces))
Spaces(text) == Cardinality({i \in 1..Len(text) : text[i] = " "})

\* C20: the resources of the message the signer is given are the pieces of the
\* challenge's scope string between its single spaces, in order, each with
\* "urn:oauth:scope:" put before it: one more resource than the scope has
\* spaces, an empty piece (between two spaces in a row) included, no piece
\* holding a space, and the pieces joined by spaces giving the scope back.
C20_Resources ==
  \A s \in Slots :
    LET c == call[s]
        scope == Challenge(c).scope
        resources == c.signed.resources
        pieces == [i \in 1..Len(resources) |-> Tail(resources[i])]
    IN Called(c, "sign") =>
         /\ Len(resources) = Spaces(scope) + 1
         /\ \A i \in 1..Len(resources) :
              Head(resources[i]) = "urn:oauth:scope:" /\ Spaces(pieces[i]) = 0
         /\ Join(pieces) = scope

C20_Witness ==
  \E s \in Slots :
    /\ Called(call[s], "sign") /\ Challenge(call[s]).scope = ScopeGap
    /\ call[s].signed.resources
         = << <<"urn:oauth:scope:", "a">>, <<"urn:oauth:scope:">>, <<"urn:oauth:scope:", "b">> >>

\* C21 as stated: the chain id of the message the signer is given is the
\* chainId of the challenge parsed from the first response: the number the
\* header's chain_id writes when the header has one, and 1 when it has none.
C21_AsStated ==
  \A s \in Slots :
    LET c == call[s]
        h == Received(c)
        P == PairsOf(h)
    IN Called(c, "sign") =>
         /\ c.signed.chainId = Challenge(c).chainId
         /\ c.signed.chainId = IF Occurs(h, P, "chain_id")
                               THEN Decimal(LastValue(h, P, "chain_id")) ELSE 1

\* What fetchWithOAuth does with a challenge for chain 5: the signer is asked
\* to sign for chain 1.
C21_Witness ==
  \E s \in Slots :
    /\ variant = "fetchWithOAuth"
    /\ call[s].pc = "MessageBuilt" /\ call[s].pending = {"sign"}
    /\ Challenge(call[s]).chainId = 5
    /\ call[s].signed.chainId = 1

\* The access token of the invocation's own token response.
OwnToken(c) == c.exchangeResponse.body.access_token

\* C22: in createAuthFetch, however the steps of invocations running at once
\* fall, an invocation that has retried sent "Bearer " and the access token of
\* its own token response, also when the other invocation stored another token
\* before or after; onToken, when supplied, was called once by that invocation,
\* with that same token; and the token is the one the invocation put in the
\* cache, so that while no later exchange has resolved the cache holds it.
C22_OwnToken ==
  \A s \in Slots :
    LET c == call[s]
    IN Called(c, "retry") =>
         /\ ExchangeSucceeded(c)
         /\ c.retryReq.init.headers["Authorization"] = <<Bearer(OwnToken(c))>>
         /\ c.onTokenCalls = IF onTokenGiven
                             THEN << <<OwnToken(c), c.exchangeResponse.body.scope>> >>
                             ELSE <<>>
         /\ (\A t \in Slots \ {s} : ~Called(call[t], "retry")) /\ issued = OwnToken(c)
              => currentToken = OwnToken(c)

\* Two invocations have both retried, each with its own token, and the cache
\* holds the token of one of them only.
C22_Witness ==
  \E s, t \in Slots :
    /\ s # t /\ call[s].pc = "Retried" /\ call[t].pc = "Retried"
    /\ OwnToken(call[s]) = TokenName[1] /\ OwnToken(call[t]) = TokenName[2]
    /\ currentToken = TokenName[2]
    /\ call[s].retryReq.init.headers["Authorization"] = <<Bearer(TokenName[1])>>
    /\ call[t].retryReq.init.headers["Authorization"] = <<Bearer(TokenName[2])>>
    /\ onTokenGiven /\ call[s].onTokenCalls = << <<TokenName[1], ScopeAB>> >>

\* C23: the cached token changes only in the step in which an invocation of
\* createAuthFetch has its token exchange resolve, and is then the access token
\* of that invocation's token response; every such step leaves it so.  A step
\* that ends an invocation (the first response returned, a 401 without a usable
\* challenge, an unsupported scheme, a failed nonce fetch, signer or exchange,
\* the retry's response) leaves it as it was.  authFetch and fetchWithOAuth
\* hold no token from one invocation to the next.
C23_CacheFrame ==
  [][/\ currentToken' # currentToken =>
          /\ variant = "createAuthFetch"
          /\ \E s \in Slots :
               /\ call[s].pc = "Signed" /\ call'[s].pc = "Retried"
               /\ ExchangeSucceeded(call'[s])
               /\ currentToken' = OwnToken(call'[s])
     /\ \A s \in Slots :
          /\ variant = "createAuthFetch" /\ call[s].pc = "Signed" /\ call'[s].pc = "Retried"
               => currentToken' = OwnToken(call'[s])
          /\ ~Ended(call[s]) /\ Ended(call'[s]) => currentToken' = currentToken
     /\ variant # "createAuthFetch" => currentToken = Undefined /\ currentToken' = Undefined
    ]_vars

\* A later invocation has failed at its nonce fetch and the cache still holds
\* the token an earlier invocation obtained.
C23_Witness ==
  \E s \in Slots :
    /\ variant = "createAuthFetch" /\ started = 2
    /\ issued = TokenName[2] /\ currentToken = TokenName[2]
    /\ call[s].token = TokenName[2]
    /\ call[s].pc = "Failed" /\ LastCalled(call[s]) = "nonce"

\* The invocation has been given a nonce by the nonce endpoint.
HasNonce(c) == c.nonceResponse # NoResponse /\ Truthy(c.nonceResponse.body.nonce)

\* C24: with a nonce endpoint that gives each nonce once, every invocation that
\* asked the signer made its own nonce request, once, before; the message it
\* had signed and the message of its exchange request carry the nonce of its
\* own nonce response; it signed once and exchanged at most once; and two
\* invocations, running at once or one after the other, never carry the same
\* nonce in their messages.
C24_OwnNonce ==
  /\ \A s \in Slots :
       LET c == call[s]
       IN /\ Called(c, "sign") =>
               /\ Count(c, "nonce") = 1 /\ Count(c, "sign") = 1 /\ HasNonce(c)
               /\ c.signed.nonce = c.nonceResponse.body.nonce
          /\ Called(c, "exchange") =>
               /\ Count(c, "exchange") = 1
               /\ c.exchangeReq.message.nonce = c.nonceResponse.body.nonce
  /\ \A s, t \in Slots :
       s # t /\ Called(call[s], "sign") /\ Called(call[t], "sign")
         => call[s].signed.nonce # call[t].signed.nonce

\* One invocation has ended with its token; the other, started after it, was
\* challenged too and has sent its exchange with the second nonce.
C24_Witness ==
  \E s, t \in Slots :
    /\ s # t /\ call[s].pc = "Done" /\ Called(call[s], "retry")
    /\ call[s].exchangeReq.message.nonce = NonceName[1]
    /\ call[t].pc = "Signed" /\ call[t].exchangeReq.message.nonce = NonceName[2]
    /\ variant = "createAuthFetch" => call[t].token = OwnToken(call[s])

\* The steps of an invocation as the state machine names them.  The model's
\* FirstAttempted, ChallengeDetected, MessageBuilt, Signed and Retried are the
\* awaits; ChallengeDetected without a usable challenge, NonceFetched and
\* Exchanged are passed within one step.  A step from FirstAttempted to Failed
\* on a 401 is a step through ChallengeDetected.
Chain(c, d) ==
  \/ d = c
  \/ c.pc = "Initial" /\ d.pc = "FirstAttempted"
  \/ c.pc = "FirstAttempted" /\ d.pc \in {"Done", "ChallengeDetected"}
  \/ c.pc = "FirstAttempted" /\ d.pc = "Failed" /\ d.response.status = 401
  \/ c.pc = "ChallengeDetected" /\ d.pc \in {"MessageBuilt", "Failed"}
  \/ c.pc = "MessageBuilt" /\ d.pc \in {"Signed", "Failed"}
  \/ c.pc = "Signed" /\ d.pc \in {"Retried", "Failed"}
  \/ c.pc = "Retried" /\ d.pc \in {"Done", "Failed"}
  \/ Ended(c) /\ d = Idle

\* The first attempt fails without a challenge: the request could not
\* complete, or fetchWithOAuth was answered with an error status other than 401
\* or with a body that is not JSON.
FirstFails(c, d) ==
  /\ c.pc = "FirstAttempted" /\ d.pc = "Failed" /\ d.response.status # 401
  /\ \/ d.rejected = "request" /\ ~Answered(d)
     \/ variant = "fetchWithOAuth" /\ Answered(d) /\ (~Ok(d.response) \/ ~d.response.body.json)

\* At most four requests, one of each kind, and at most one signer call.
FewCalls(c) ==
  /\ \A what \in {"request", "nonce", "sign", "exchange", "retry"} : Count(c, what) <= 1
  /\ Len(External(c)) - Count(c, "sign") <= 4

\* C25 as stated: when every awaited call settles, every invocation ends in
\* Done or Failed, taking only the steps Initial -> FirstAttempted ->
\* {Done | ChallengeDetected} -> {Done | Failed | NonceFetched -> MessageBuilt
\* -> Signed -> Exchanged -> Retried -> Done} (Failed from ChallengeDetected or
\* any state after it), with at most four requests and one signer call.
C25_AsStated ==
  /\ [][\A s \in Slots : Chain(call[s], call'[s])]_vars
  /\ [](\A s \in Slots : FewCalls(call[s]))
  /\ \A s \in Slots : (call[s].pc \in Awaiting) ~> Ended(call[s])

\* C25 amended: the same, with one more step: FirstAttempted -> Failed, taken
\* when the first request could not complete (and, in fetchWithOAuth, when it
\* was answered with an error status other than 401 or a body that is not JSON).
C25_Termination ==
  /\ [][\A s \in Slots : Chain(call[s], call'[s]) \/ FirstFails(call[s], call'[s])]_vars
  /\ [](\A s \in Slots : FewCalls(call[s]))
  /\ \A s \in Slots : (call[s].pc \in Awaiting) ~> Ended(call[s])

\* An invocation has failed at its first attempt, the request not having
\* completed, having made that one call.
C25_Witness ==
  \E s \in Slots :
    /\ call[s].pc = "Failed" /\ call[s].rejected = "request"
    /\ call[s].response = NoResponse /\ call[s].log = <<"request">>
    /\ \E t \in Slots : call[t].pc = "Initial" /\ started >= 1

\* What the caller is told of tokens: the calls of onToken by authFetch, the
\* token of the result by fetchWithOAuth.
Reported(impl, c) ==
  IF impl = "fetchWithOAuth"
  THEN (IF c.outcome.kind = "data" THEN <<c.outcome.token>> ELSE <<>>)
  ELSE [i \in 1..Len(c.onTokenCalls) |-> c.onTokenCalls[i][1]]

\* The same end: both returned the same response, or both failed with the
\* same error.
SameEnd(c, d) ==
  /\ c.pc = d.pc
  /\ c.outcome.response = d.outcome.response
  /\ c.outcome.error = d.outcome.error

\* C26 as stated: given the same inputs and the same responses, the inline
\* authFetch and the other implementation (the one-shot authFetch, or
\* fetchWithOAuth) have made the same external calls in the same order, each
\* with the same content, and once ended have ended alike, having told the
\* caller (who supplied onToken) of the same token.
C26_AsStated ==
  LET c == call["s1"]
      d == call["s2"]
  IN /\ External(c) = External(d)
     /\ c.firstReq = d.firstReq /\ c.nonceReq = d.nonceReq /\ c.signed = d.signed
     /\ c.exchangeReq = d.exchangeReq /\ c.retryReq = d.retryReq
     /\ Ended(c) \/ Ended(d) =>
          /\ SameEnd(c, d)
          /\ onTokenGiven => Reported("authFetch", c) = Reported(variant, d)

\* C26 amended: the inline authFetch and the one-shot authFetch are the same in
\* everything: calls, their content, onToken, outcome.  fetchWithOAuth makes
\* the same kinds of calls in the same order and ends when authFetch ends, with
\* the same first request, retry, token endpoint, signature and scope; it
\* fails whenever authFetch fails, and when it returns, authFetch returned the
\* same response and the token in its result is the one onToken was told, or
\* the caller's own when there was no exchange.  It differs in the nonce URL
\* (unless tokenUri ends in its one "/token"), in the chain id signed (always
\* 1), and in failing where authFetch returns a response.
C26_Equivalence ==
  LET c == call["s1"]
      d == call["s2"]
  IN IF variant = "createAuthFetch" THEN c = d
     ELSE /\ ~onTokenGiven => c.log = d.log
          /\ External(c) = External(d)
          /\ Ended(c) <=> Ended(d)
          /\ c.firstReq = d.firstReq /\ c.retryReq = d.retryReq
          /\ c.exchangeReq.input = d.exchangeReq.input
          /\ c.exchangeReq.signature = d.exchangeReq.signature
          /\ c.exchangeReq.scope = d.exchangeReq.scope
          /\ Called(c, "nonce") /\ FirstToken(Challenge(c).tokenUri) = Len(Challenge(c).tokenUri)
               => c.nonceReq = d.nonceReq
          /\ Called(c, "sign") => d.signed = [c.signed EXCEPT !.chainId = 1]
          /\ c.pc = "Failed" => d.pc = "Failed"
          /\ d.pc = "Done" =>
               /\ c.pc = "Done" /\ c.outcome.response = d.outcome.response
               /\ Reported(variant, d)
                    = IF Called(d, "retry") THEN <<OwnToken(d)>>
                      ELSE <<IF Truthy(d.token) THEN d.token ELSE "">>
               /\ onTokenGiven /\ Called(d, "retry")
                    => Reported("authFetch", c) = Reported(variant, d)

\* The one-shot authFetch has gone through the whole flow as the inline one
\* did: called with a token the resource refused, both retried with the new
\* token, told the caller of it and returned the retry's response.
C26_Witness ==
  /\ variant = "createAuthFetch" /\ onTokenGiven
  /\ call["s1"].pc = "Done" /\ call["s2"].pc = "Done"
  /\ call["s2"].token = TokenName[1] /\ currentToken = TokenName[2]
  /\ call["s2"].retryReq.init.headers["Authorization"] = <<Bearer(TokenName[2])>>
  /\ Reported(variant, call["s2"]) = <<TokenName[2]>>
  /\ call["s1"] = call["s2"]

\* isAuthorized: !!accessToken
isAuthorized == Truthy(accessToken)

\* C27 as stated: from clearAuth until the next call of authorize, isAuthorized
\* is false: no token is stored, not by an authorize mutation or a messages
\* query that was in flight when clearAuth ran either.
C27_AsStated == cleared => ~isAuthorized

\* What the hook does: clearAuth ran while the authorize mutation was in
\* flight, authorize has not been called since, and the mutation has gone on to
\* store its token.
C27_Witness ==
  /\ cleared /\ isAuthorized
  /\ accessToken = issued
  /\ call[Mutation].pc = "Initial" /\ call[Query].pc = "Initial"

====
